---- MODULE Spec2Model ----
(***************************************************************************)
(* Model of the section pipeline of HierarchicalParser                     *)
(* (backend/etl/parser_hierarchical.py): title resolution, the recursive   *)
(* section walk, the merge of duplicate subsections and the renumbering;   *)
(* of the section walks of SmartHybridParser, FDAXMLParser and             *)
(* UltraRefinedParser; of ETLBuilder.process_batch and                     *)
(* ETLBuilder._save_to_database; of the content renderer of                *)
(* HierarchicalParser; of MedicalNER._deduplicate_entities; and of         *)
(* run_watchdog_pipeline (backend/scripts/run_watchdog.py).  Each has its  *)
(* own specification over the shared variables.                            *)
(*                                                                         *)
(* Strings are sequences of tokens: a token is a word, a punctuation mark  *)
(* or one whitespace character, so that whitespace collapsing, stripping   *)
(* and upper-casing are computed rather than assumed.  A dotted section    *)
(* number "1.2.3" is the sequence <<1, 2, 3>> and "" is <<>>: split('.')   *)
(* and '.'.join are exact inverses on such numbers.                        *)
(***************************************************************************)
EXTENDS Naturals, Sequences, FiniteSets, TLC

VARIABLES doc, pc, extracted, merged, sections, again, xml_content, result,
          file_paths, file_idx, results, drug_labels, processing_log,
          section_counter, calls,
          entities, deduplicated,
          db, sessions, unique_constraint,
          watch, label_versions, drug_version_history, s3_objects

\* The state of ETLBuilder.process_batch and of its database
etlVars == <<file_paths, file_idx, results, drug_labels, processing_log>>

\* The section_counter of one UltraRefinedParser and the calls running on it
ultraVars == <<section_counter, calls>>

\* The argument of MedicalNER._deduplicate_entities and the list it returns
nerVars == <<entities, deduplicated>>

\* The database tables _save_to_database writes, the calls running on
\* them and whether uq_drug_labels_set_version exists
saveVars == <<db, sessions, unique_constraint>>

\* One run of run_watchdog_pipeline, the versions stored in drug_labels,
\* the drug_version_history table and the objects of the S3 bucket
watchVars == <<watch, label_versions, drug_version_history, s3_objects>>

\* The state of the components other than the parsers and the batch
moreVars == <<nerVars, saveVars, watchVars>>

vars == <<doc, pc, extracted, merged, sections, again, xml_content, result, etlVars,
          ultraVars, moreVars>>

\* What _extract_sections_hierarchical neither reads nor writes
notHier == <<xml_content, result, etlVars, ultraVars, moreVars>>

\* No batch is running: no files, no counts, an empty database
EtlIdle ==
    /\ file_paths = <<>>
    /\ file_idx = 1
    /\ results = [success |-> 0, failed |-> 0, drug_label_ids |-> <<>>]
    /\ drug_labels = <<>>
    /\ processing_log = <<>>

\* self.section_counter = {} of a new UltraRefinedParser
EmptyCounter == [key \in {} |-> 0]

\* A thread that has not called the parser and may call it budget times
IdleCall(budget) ==
    [status |-> "idle", label |-> "none", d |-> <<>>, tasks |-> <<>>, pos |-> 1,
     step |-> "ensure", number |-> <<>>, out |-> <<>>, stale |-> FALSE,
     made |-> <<>>, budget |-> budget]

\* No UltraRefinedParser call is running
UltraIdle ==
    /\ section_counter = EmptyCounter
    /\ calls = [t \in {1, 2} |-> IdleCall(0)]

\* _deduplicate_entities has not been called
NerIdle == entities = <<>> /\ deduplicated = <<>>

\* Empty tables; label ids are drawn from a sequence that starts at 1
EmptyDb == [drug_labels |-> <<>>, drug_sections |-> <<>>, section_embeddings |-> <<>>,
            next_id |-> 1]

\* No _save_to_database call exists
SaveIdle == db = EmptyDb /\ sessions = <<>> /\ unique_constraint = FALSE

\* run_watchdog_pipeline has not been started
WatchIdle ==
    /\ watch = [pc |-> "idle"]
    /\ label_versions = <<>>
    /\ drug_version_history = <<>>
    /\ s3_objects = {}

\* The other components are at rest
MoreIdle == NerIdle /\ SaveIdle /\ WatchIdle

\* Largest number of <section> elements in an input document.
MaxNodes == 4

(***************************************************************************)
(* Strings                                                                 *)
(***************************************************************************)
SP == " "
LF == "<lf>"

IsSpace(c) == c \in {SP, LF}

IsDigits(c) == c \in {"1", "2"}

\* str.upper(), token by token
Upper(c) ==
    CASE c = "Drug" -> "DRUG"
      [] c = "Interactions" -> "INTERACTIONS"
      [] c = "Unknown" -> "UNKNOWN"
      [] c = "Generic" -> "GENERIC"
      [] c = "Section" -> "SECTION"
      [] c = "section" -> "SECTION"
      [] c = "Subsection" -> "SUBSECTION"
      [] c = "Unclassified" -> "UNCLASSIFIED"
      [] c = "Overview" -> "OVERVIEW"
      [] OTHER -> c

UpperStr(s) == [i \in 1..Len(s) |-> Upper(s[i])]

\* "UNCLASSIFIED" in s.upper()
HasUnclassified(s) == \E i \in 1..Len(s) : Upper(s[i]) = "UNCLASSIFIED"

RECURSIVE LStrip(_)
LStrip(s) == IF s # <<>> /\ IsSpace(Head(s)) THEN LStrip(Tail(s)) ELSE s

RECURSIVE RStrip(_)
RStrip(s) ==
    IF s # <<>> /\ IsSpace(s[Len(s)]) THEN RStrip(SubSeq(s, 1, Len(s) - 1)) ELSE s

\* str.strip()
Strip(s) == RStrip(LStrip(s))

\* re.sub(r'\s+', ' ', s)
RECURSIVE CollapseWs(_)
CollapseWs(s) ==
    IF s = <<>> THEN <<>>
    ELSE IF IsSpace(Head(s))
         THEN IF Len(s) > 1 /\ IsSpace(s[2])
              THEN CollapseWs(Tail(s))
              ELSE <<SP>> \o CollapseWs(Tail(s))
         ELSE <<Head(s)>> \o CollapseWs(Tail(s))

RECURSIVE SkipSpaces(_, _)
SkipSpaces(s, i) == IF i <= Len(s) /\ IsSpace(s[i]) THEN SkipSpaces(s, i + 1) ELSE i

RECURSIVE SkipDigits(_, _)
SkipDigits(s, i) == IF i <= Len(s) /\ IsDigits(s[i]) THEN SkipDigits(s, i + 1) ELSE i

\* re.sub(r'^SECTION\s+\d+:', '', s, flags=re.IGNORECASE)
RemoveSectionPrefix(s) ==
    IF Len(s) >= 1 /\ Upper(s[1]) = "SECTION"
    THEN LET i == SkipSpaces(s, 2)
             j == SkipDigits(s, i)
         IN  IF i > 2 /\ j > i /\ j <= Len(s) /\ s[j] = ":"
             THEN SubSeq(s, j + 1, Len(s))
             ELSE s
    ELSE s

\* separator.join(parts)
RECURSIVE Join(_, _)
Join(parts, sep) ==
    IF parts = <<>> THEN <<>>
    ELSE IF Len(parts) = 1 THEN parts[1]
    ELSE parts[1] \o sep \o Join(Tail(parts), sep)

NonEmpty(x) == x # <<>>

\* The indices 1..n as a sequence
Indices(n) == [k \in 1..n |-> k]

(***************************************************************************)
(* Title resolution                                                        *)
(***************************************************************************)
NoCode == "none"

\* The entries of COMPLETE_LOINC_CODES the model's documents use.  The
\* dictionary literal repeats the key "42229-5"; the last entry wins.
LoincCodes == {"34073-7", "42229-5"}

LoincTitle(code) ==
    IF code = "34073-7" THEN <<"DRUG", SP, "INTERACTIONS">>
    ELSE <<"SPL", SP, "UNCLASSIFIED", SP, "SECTION">>

UnknownSection == <<"Unknown", SP, "Section">>

RejectedTitles == {UnknownSection, <<"Generic", SP, "Section">>, <<"Section">>}

Placeholder == <<"Subsection">>

clean_title(title) == Strip(RemoveSectionPrefix(Strip(CollapseWs(title))))

\* title_elem is not None and title_elem.text
HasTitleText(e) == e.hasTitle /\ e.title # <<>>

extract_title(e) ==
    LET title == Strip(e.title)
        cleaned == clean_title(title)
    IN  IF HasTitleText(e) /\ title # <<>> /\ cleaned # <<>> /\ cleaned \notin RejectedTitles
        THEN cleaned
        ELSE IF e.code # NoCode /\ e.code \in LoincCodes /\ ~HasUnclassified(LoincTitle(e.code))
        THEN LoincTitle(e.code)
        ELSE IF HasTitleText(e) /\ title # <<>>
        THEN cleaned
        ELSE IF e.displayName # <<>> /\ ~HasUnclassified(e.displayName)
        THEN clean_title(e.displayName)
        ELSE Placeholder

(***************************************************************************)
(* Section content: the <text> block holds paragraphs of plain text        *)
(***************************************************************************)
render_paragraph(p) == <<"<p>">> \o p \o <<"</p>">>

extract_section_content(e) ==
    [html |-> Join([k \in 1..Len(e.paras) |-> render_paragraph(e.paras[k])], <<LF>>),
     text |-> Join(e.paras, <<LF, LF>>)]

(***************************************************************************)
(* The document: its <section> elements in document order, each with its   *)
(* nesting depth (1 = directly under structuredBody)                       *)
(***************************************************************************)
\* The last element of the subtree of element i, scanning on from j
RECURSIVE SubtreeEndFrom(_, _, _)
SubtreeEndFrom(d, i, j) ==
    IF j < Len(d) /\ d[j + 1].depth > d[i].depth THEN SubtreeEndFrom(d, i, j + 1) ELSE j

SubtreeEnd(d, i) == SubtreeEndFrom(d, i, i)

\* section_elem.findall('./hl7:component/hl7:section')
ChildElems(d, i) ==
    LET last == SubtreeEnd(d, i)
        IsChild(k) == k > i /\ k <= last /\ d[k].depth = d[i].depth + 1
    IN  SelectSeq(Indices(Len(d)), IsChild)

\* structured_body.findall('./hl7:component/hl7:section')
TopElems(d) ==
    LET IsTop(k) == d[k].depth = 1
    IN  SelectSeq(Indices(Len(d)), IsTop)

RECURSIVE parse_section_recursive(_, _, _, _)
RECURSIVE ParseSubsections(_, _, _, _, _)

\* The list a call returns; None is the empty list (both are skipped by the
\* callers' truth test).
parse_section_recursive(d, i, level, section_num) ==
    LET title == extract_title(d[i])
        c == extract_section_content(d[i])
        section_data == [elem |-> i,
                         section_number |-> section_num,
                         level |-> level,
                         loinc_code |-> d[i].code,
                         title |-> title,
                         content_html |-> c.html,
                         content |-> c.text,
                         order |-> section_num[1]]
    IN  IF title = <<>> \/ title = UnknownSection
        THEN <<>>
        ELSE <<section_data>> \o ParseSubsections(d, ChildElems(d, i), 1, level, section_num)

ParseSubsections(d, kids, sub_idx, level, section_num) ==
    IF sub_idx > Len(kids) THEN <<>>
    ELSE parse_section_recursive(d, kids[sub_idx], level + 1, section_num \o <<sub_idx>>)
         \o ParseSubsections(d, kids, sub_idx + 1, level, section_num)

RECURSIVE ParseTopLevel(_, _, _)
ParseTopLevel(d, tops, idx) ==
    IF idx > Len(tops) THEN <<>>
    ELSE parse_section_recursive(d, tops[idx], 1, <<idx>>) \o ParseTopLevel(d, tops, idx + 1)

(***************************************************************************)
(* Merge of duplicate subsections                                          *)
(***************************************************************************)
get_parent_number(section_number) ==
    IF Len(section_number) <= 1 THEN <<>>
    ELSE SubSeq(section_number, 1, Len(section_number) - 1)

\* IsDuplicate without the same-parent test
IsDuplicateAnyParent(section, other) ==
    /\ section.level = other.level
    /\ section.title = other.title
    /\ section.level > 1

\* IsDuplicate comparing titles without regard to letter case
IsDuplicateIgnoreCase(section, other) ==
    /\ section.level = other.level
    /\ get_parent_number(section.section_number) = get_parent_number(other.section_number)
    /\ UpperStr(section.title) = UpperStr(other.title)
    /\ section.level > 1

\* The test of the inner loop
IsDuplicate(section, other) ==
    /\ section.level = other.level
    /\ get_parent_number(section.section_number) = get_parent_number(other.section_number)
    /\ section.title = other.title
    /\ section.level > 1

\* Duplicates stopping at the first hit
DuplicatesFirstOnly(secs, i, skip) ==
    LET Hit(j) == j > i /\ j \notin skip
                  /\ secs[i].level = secs[j].level
                  /\ get_parent_number(secs[i].section_number)
                       = get_parent_number(secs[j].section_number)
                  /\ secs[i].title = secs[j].title
                  /\ secs[i].level > 1
        hits == SelectSeq(Indices(Len(secs)), Hit)
    IN  IF hits = <<>> THEN <<>> ELSE <<hits[1]>>

\* The indices the inner loop collects for sections[i]
Duplicates(secs, i, skip) ==
    LET Hit(j) == j > i /\ j \notin skip /\ IsDuplicate(secs[i], secs[j])
    IN  SelectSeq(Indices(Len(secs)), Hit)

\* MergedSection keeping the first member's content only
MergedSectionFirstOnly(secs, i, dups) == secs[i]

MergedSection(secs, i, dups) ==
    LET combined_html == <<secs[i].content_html>>
                         \o SelectSeq([k \in 1..Len(dups) |-> secs[dups[k]].content_html], NonEmpty)
        combined_text == <<secs[i].content>>
                         \o SelectSeq([k \in 1..Len(dups) |-> secs[dups[k]].content], NonEmpty)
    IN  [secs[i] EXCEPT !.content_html = Join(SelectSeq(combined_html, NonEmpty), <<LF, LF>>),
                        !.content = Join(SelectSeq(combined_text, NonEmpty), <<LF, LF>>)]

RECURSIVE MergeLoop(_, _, _, _)
MergeLoop(secs, i, skip, acc) ==
    IF i > Len(secs) THEN acc
    ELSE IF i \in skip THEN MergeLoop(secs, i + 1, skip, acc)
    ELSE LET dups == Duplicates(secs, i, skip)
         IN  IF dups # <<>>
             THEN MergeLoop(secs, i + 1, skip \cup {dups[k] : k \in 1..Len(dups)},
                            Append(acc, MergedSection(secs, i, dups)))
             ELSE MergeLoop(secs, i + 1, skip, Append(acc, secs[i]))

merge_duplicate_subsections(secs) == MergeLoop(secs, 1, {}, <<>>)

(***************************************************************************)
(* Renumbering                                                             *)
(***************************************************************************)
get_parent_num(section_num) ==
    IF Len(section_num) > 1 THEN SubSeq(section_num, 1, Len(section_num) - 1) ELSE <<>>

\* parent_map.get(parent_num, []): the map is built once, from the numbers
\* the sections have on entry
ParentMap(secs, parent_num) ==
    LET IsChild(k) == get_parent_num(secs[k].section_number) = parent_num
    IN  SelectSeq(Indices(Len(secs)), IsChild)

\* RenumberChildren prefixing the number the parent had on entry
RECURSIVE RenumberChildrenOldPrefix(_, _, _, _)
RenumberChildrenOldPrefix(secs, children, idx, parent_num) ==
    IF idx > Len(children) THEN <<>>
    ELSE LET old_num == secs[children[idx]].section_number
             new_num == get_parent_num(old_num) \o <<idx>>
         IN  <<[secs[children[idx]] EXCEPT !.section_number = new_num]>>
             \o RenumberChildrenOldPrefix(secs, ParentMap(secs, old_num), 1, old_num)
             \o RenumberChildrenOldPrefix(secs, children, idx + 1, parent_num)

\* RenumberChildren keeping each child's own last segment
RECURSIVE RenumberChildrenKeepIndex(_, _, _, _)
RenumberChildrenKeepIndex(secs, children, idx, parent_num) ==
    IF idx > Len(children) THEN <<>>
    ELSE LET old_num == secs[children[idx]].section_number
             new_num == parent_num \o <<old_num[Len(old_num)]>>
         IN  <<[secs[children[idx]] EXCEPT !.section_number = new_num]>>
             \o RenumberChildrenKeepIndex(secs, ParentMap(secs, new_num), 1, new_num)
             \o RenumberChildrenKeepIndex(secs, children, idx + 1, parent_num)

RECURSIVE renumber_group(_, _)
RECURSIVE RenumberChildren(_, _, _, _)

renumber_group(secs, parent_num) ==
    RenumberChildren(secs, ParentMap(secs, parent_num), 1, parent_num)

RenumberChildren(secs, children, idx, parent_num) ==
    IF idx > Len(children) THEN <<>>
    ELSE LET new_num == parent_num \o <<idx>>
         IN  <<[secs[children[idx]] EXCEPT !.section_number = new_num]>>
             \o renumber_group(secs, new_num)
             \o RenumberChildren(secs, children, idx + 1, parent_num)

renumber_sections(secs) == renumber_group(secs, <<>>)

(***************************************************************************)
(* Input documents                                                         *)
(***************************************************************************)
DrugInteractions == <<"Drug", SP, "Interactions">>

\* The section elements of the structural documents: title text, code
\* attributes and whether the element has a <text> block
SectionKinds ==
    { [hasTitle |-> TRUE, title |-> DrugInteractions, code |-> NoCode,
       displayName |-> <<>>, hasText |-> TRUE],
      [hasTitle |-> TRUE, title |-> <<"DRUG", SP, "INTERACTIONS">>, code |-> NoCode,
       displayName |-> <<>>, hasText |-> TRUE],
      [hasTitle |-> TRUE, title |-> <<SP, "Drug", LF, SP, "Interactions", SP>>, code |-> NoCode,
       displayName |-> <<>>, hasText |-> FALSE],
      [hasTitle |-> FALSE, title |-> <<>>, code |-> NoCode,
       displayName |-> <<>>, hasText |-> TRUE],
      [hasTitle |-> TRUE, title |-> UnknownSection, code |-> NoCode,
       displayName |-> <<>>, hasText |-> TRUE] }

TitleTexts ==
    { <<>>,
      <<SP>>,
      <<"Overview">>,
      DrugInteractions,
      UnknownSection,
      <<"Section">>,
      <<"SECTION", SP, "1", ":">>,
      <<"section", SP, SP, "2", ":", SP, "Overview">>,
      <<"SPL", SP, "UNCLASSIFIED", SP, "SECTION">>,
      <<"Unclassified", SP, "Section">> }

Codes == {NoCode, "34073-7", "42229-5", "99999-9"}

DisplayNames == { <<>>, <<"Overview">>, <<"SPL", SP, "Unclassified", SP, "Section">> }

\* Every combination of title, code and displayName
TitleKinds ==
    { [hasTitle |-> h, title |-> t, code |-> c, displayName |-> n, hasText |-> TRUE] :
        h \in BOOLEAN, t \in TitleTexts, c \in Codes, n \in DisplayNames }

\* Depths of a forest in document order
IsForest(depths) ==
    /\ depths[1] = 1
    /\ \A k \in 2..Len(depths) : depths[k] <= depths[k - 1] + 1

Shapes(n) == {f \in [1..n -> 1..n] : IsForest(f)}

\* The text of the k-th section element is one paragraph holding the word k
Element(kind, depth, k) ==
    [hasTitle |-> kind.hasTitle, title |-> kind.title, code |-> kind.code,
     displayName |-> kind.displayName, depth |-> depth,
     paras |-> IF kind.hasText THEN << <<ToString(k)>> >> ELSE <<>>]

\* A document of up to MaxNodes sections of any shape
IsStructuralDoc(d) ==
    \E n \in 1..MaxNodes : \E shape \in Shapes(n) : \E kinds \in [1..n -> SectionKinds] :
        d = [k \in 1..n |-> Element(kinds[k], shape[k], k)]

\* An element with or without a <title>; an absent title has no text
TitleInputs == {k \in TitleKinds : k.hasTitle \/ k.title = <<>>}

PlainKind ==
    [hasTitle |-> TRUE, title |-> <<"Overview">>, code |-> NoCode,
     displayName |-> <<>>, hasText |-> TRUE]

\* One section, alone or as the subsection of a plainly titled section, with
\* every combination of title inputs
IsTitleDoc(d) ==
    \E a \in TitleInputs :
        \/ d = <<Element(a, 1, 1)>>
        \/ d = <<Element(PlainKind, 1, 1), Element(a, 2, 2)>>

(***************************************************************************)
(* The state machine                                                       *)
(***************************************************************************)
\* The value of a call that has not returned
NoResult == [tag |-> "pending"]

\* A document that parsed, with readable metadata and a structuredBody
ParsedBody == [wellformed |-> TRUE, version |-> "absent", hasBody |-> TRUE]

Init ==
    /\ IsStructuralDoc(doc) \/ IsTitleDoc(doc)
    /\ pc = "start"
    /\ extracted = <<>>
    /\ merged = <<>>
    /\ sections = <<>>
    /\ again = <<>>
    /\ xml_content = ParsedBody
    /\ result = NoResult
    /\ EtlIdle
    /\ UltraIdle
    /\ MoreIdle

\* _extract_sections_hierarchical: the walk, the merge and the renumbering
ExtractSectionsHierarchical ==
    /\ pc = "start"
    /\ extracted' = ParseTopLevel(doc, TopElems(doc), 1)
    /\ merged' = merge_duplicate_subsections(extracted')
    /\ sections' = renumber_sections(merged')
    /\ pc' = "returned"
    /\ UNCHANGED <<doc, again>>
    /\ UNCHANGED notHier

\* The merge and the renumbering applied to a list they returned
MergeAndRenumberAgain ==
    /\ pc = "returned"
    /\ again' = renumber_sections(merge_duplicate_subsections(sections))
    /\ pc' = "again"
    /\ UNCHANGED <<doc, extracted, merged, sections>>
    /\ UNCHANGED notHier

Next == ExtractSectionsHierarchical \/ MergeAndRenumberAgain

Spec == Init /\ [][Next]_vars

(***************************************************************************)
(* Properties                                                              *)
(***************************************************************************)
Returned == pc # "start"

Positions(secs) == 1..Len(secs)

Numbers(secs) == {secs[i].section_number : i \in Positions(secs)}

\* A dotted number without its last segment
DropLast(num) == SubSeq(num, 1, Len(num) - 1)

LastSegment(num) == num[Len(num)]

\* The positions of the sections directly under the number p
ChildrenIn(secs, p) == {i \in Positions(secs) : DropLast(secs[i].section_number) = p}

ElemsOf(secs) == {secs[i].elem : i \in Positions(secs)}

\* The position in secs of the section made from element e
PosOf(secs, e) == CHOOSE i \in Positions(secs) : secs[i].elem = e

WithoutLF(s) ==
    LET Solid(c) == c # LF
    IN  SelectSeq(s, Solid)

\* A top-level section was dropped by the walk, leaving a gap in the numbering
TopLevelDropped ==
    \E i \in Positions(extracted) :
        /\ Len(extracted[i].section_number) = 1
        /\ \E n \in 1..MaxNodes :
              /\ n < extracted[i].section_number[1]
              /\ <<n>> \notin Numbers(extracted)

SomethingMerged == Len(merged) < Len(extracted)

\* C1: in the returned list every section_number without its last segment is
\* empty or is the section_number of another section of the list.
C1_ParentPathPresent ==
    Returned =>
        \A i \in Positions(sections) :
            \/ DropLast(sections[i].section_number) = <<>>
            \/ \E j \in Positions(sections) :
                  /\ j # i
                  /\ sections[j].section_number = DropLast(sections[i].section_number)

C1_Witness ==
    /\ pc = "returned"
    /\ TopLevelDropped
    /\ \E i \in Positions(sections) : Len(sections[i].section_number) >= 2
    /\ \E i \in Positions(sections) : sections[i].section_number \notin Numbers(extracted)

\* C2: in the returned list the last segments of the children of every parent
\* (the root included) are exactly 1..N, without gap or repeat.
C2_ChildrenContiguous ==
    Returned =>
        \A p \in {<<>>} \cup Numbers(sections) \cup {DropLast(n) : n \in Numbers(sections)} :
            LET kids == ChildrenIn(sections, p)
            IN  /\ {LastSegment(sections[i].section_number) : i \in kids} = 1..Cardinality(kids)
                /\ \A i, j \in kids :
                      sections[i].section_number = sections[j].section_number => i = j

C2_Witness ==
    /\ pc = "returned"
    /\ SomethingMerged
    /\ \E p \in Numbers(merged) :
          {LastSegment(merged[i].section_number) : i \in ChildrenIn(merged, p)}
              # 1..Cardinality(ChildrenIn(merged, p))
    /\ Len(sections) >= 3

\* C3: _renumber_sections returns every section of its input exactly once, in
\* the same relative order, with nothing but section_number changed.
C3_RenumberLosesNothing ==
    Returned =>
        /\ Len(sections) = Len(merged)
        /\ \A i \in Positions(sections) :
              [sections[i] EXCEPT !.section_number = merged[i].section_number] = merged[i]

\* C4: _renumber_sections keeps the tree shape: a section that was a child of
\* A is a child of A afterwards, and no section gets a parent it did not have.
C4_TreeShapePreserved ==
    Returned =>
        /\ \A a, b \in Positions(merged) :
              ( /\ DropLast(merged[b].section_number) = merged[a].section_number
                /\ merged[a].elem \in ElemsOf(sections)
                /\ merged[b].elem \in ElemsOf(sections) )
              => DropLast(sections[PosOf(sections, merged[b].elem)].section_number)
                   = sections[PosOf(sections, merged[a].elem)].section_number
        /\ \A a, b \in Positions(sections) :
              DropLast(sections[b].section_number) = sections[a].section_number
              => DropLast(merged[PosOf(merged, sections[b].elem)].section_number)
                   = merged[PosOf(merged, sections[a].elem)].section_number

\* Sibling subsections: below the top level, under the same parent number
Siblings(secs, i, j) ==
    /\ Len(secs[i].section_number) > 1
    /\ Len(secs[j].section_number) > 1
    /\ DropLast(secs[i].section_number) = DropLast(secs[j].section_number)

\* The walked sections i and j share parent and title
InGroup(i, j) ==
    j = i \/ (Siblings(extracted, i, j) /\ extracted[i].title = extracted[j].title)

\* i is the first member of its group
IsFirst(i) == \A j \in 1..(i - 1) : ~InGroup(i, j)

\* The contents of the members of i's group from position j on, one after the other
RECURSIVE GroupContent(_, _)
GroupContent(i, j) ==
    IF j > Len(extracted) THEN <<>>
    ELSE (IF InGroup(i, j) THEN extracted[j].content ELSE <<>>) \o GroupContent(i, j + 1)

RECURSIVE GroupHtml(_, _)
GroupHtml(i, j) ==
    IF j > Len(extracted) THEN <<>>
    ELSE (IF InGroup(i, j) THEN extracted[j].content_html ELSE <<>>) \o GroupHtml(i, j + 1)

\* C5: the merge replaces the siblings of equal parent and title by one
\* section at the place of the first, holding the members' contents in their
\* original order; the parent has (group size - 1) fewer children.
C5_MergeConcatenatesGroup ==
    Returned =>
        /\ Len(merged) = Cardinality({i \in Positions(extracted) : IsFirst(i)})
        /\ \A k, l \in Positions(merged) :
              k < l => PosOf(extracted, merged[k].elem) < PosOf(extracted, merged[l].elem)
        /\ \A k \in Positions(merged) :
              \E i \in Positions(extracted) :
                 /\ IsFirst(i)
                 /\ [merged[k] EXCEPT !.content = <<>>, !.content_html = <<>>]
                      = [extracted[i] EXCEPT !.content = <<>>, !.content_html = <<>>]
                 /\ WithoutLF(merged[k].content) = WithoutLF(GroupContent(i, 1))
                 /\ WithoutLF(merged[k].content_html) = WithoutLF(GroupHtml(i, 1))
        /\ \A i \in Positions(extracted) :
              IsFirst(i) =>
                 Cardinality(ChildrenIn(merged, DropLast(extracted[i].section_number)))
                   = Cardinality({j \in ChildrenIn(extracted, DropLast(extracted[i].section_number)) :
                                    IsFirst(j)})

C5_Witness ==
    /\ pc = "returned"
    /\ Len(merged) = Len(extracted) - 1
    /\ \E i, j \in Positions(extracted) :
          /\ i < j
          /\ InGroup(i, j)
          /\ extracted[i].content # <<>>
          /\ extracted[j].content # <<>>
          /\ \E k \in Positions(merged) :
                merged[k].content = extracted[i].content \o <<LF, LF>> \o extracted[j].content

\* C6: the merge never joins sections of different parents: no section
\* receives text of a section under another parent, and a section without an
\* equally titled sibling is in the output unchanged.
C6_NoMergeAcrossParents ==
    Returned =>
        /\ \A k \in Positions(merged) : \A j \in Positions(extracted) :
              ( /\ extracted[j].content # <<>>
                /\ \E x \in 1..Len(merged[k].content) : merged[k].content[x] = extracted[j].content[1] )
              => DropLast(extracted[j].section_number) = DropLast(merged[k].section_number)
        /\ \A i, j \in Positions(extracted) :
              ( /\ extracted[i].title = extracted[j].title
                /\ extracted[i].level = extracted[j].level
                /\ DropLast(extracted[i].section_number) # DropLast(extracted[j].section_number)
                /\ \A h \in Positions(extracted) : InGroup(i, h) => h = i )
              => \E k \in Positions(merged) : merged[k] = extracted[i]

C6_Witness ==
    /\ pc = "returned"
    /\ \E i, j \in Positions(extracted) :
          /\ i < j
          /\ extracted[i].title = extracted[j].title
          /\ extracted[i].level = extracted[j].level
          /\ extracted[i].level > 1
          /\ DropLast(extracted[i].section_number) # DropLast(extracted[j].section_number)
          /\ extracted[i].content # <<>>
          /\ extracted[j].content # <<>>
          /\ \E k, l \in Positions(merged) : merged[k] = extracted[i] /\ merged[l] = extracted[j]

\* Whitespace normalisation of a title text
WsNormal(t) == Strip(CollapseWs(t))

\* The title text of the element a section was made from
RawTitle(sec) == doc[sec.elem].title

\* The element's own title text is the resolved title: it is not blank and,
\* cleaned, none of the rejected generic titles
OwnTitleAccepted(sec) ==
    /\ doc[sec.elem].hasTitle
    /\ clean_title(RawTitle(sec)) # <<>>
    /\ clean_title(RawTitle(sec)) \notin RejectedTitles

\* The section made from the walked section j is gone from the merged list
Absorbed(j) == extracted[j].elem \notin ElemsOf(merged)

\* C7 (as stated): siblings whose titles differ only in letter case or
\* whitespace are merged into one section.
C7_CaseInsensitiveGrouping ==
    Returned =>
        \A i, j \in Positions(extracted) :
            ( /\ i < j
              /\ Siblings(extracted, i, j)
              /\ UpperStr(WsNormal(extracted[i].title)) = UpperStr(WsNormal(extracted[j].title)) )
            => Absorbed(j)

\* C7 (amended): siblings are grouped by exact equality of their resolved
\* titles: a subsection is absorbed exactly when an earlier sibling has the
\* same title, letter case included; title texts that differ only in
\* whitespace resolve to the same title and are merged.
C7_ExactTitleGrouping ==
    Returned =>
        /\ \A j \in Positions(extracted) :
              Absorbed(j) <=>
                 \E i \in Positions(extracted) :
                    i < j /\ Siblings(extracted, i, j) /\ extracted[i].title = extracted[j].title
        /\ \A i, j \in Positions(extracted) :
              ( /\ i < j
                /\ Siblings(extracted, i, j)
                /\ OwnTitleAccepted(extracted[i])
                /\ OwnTitleAccepted(extracted[j])
                /\ WsNormal(RawTitle(extracted[i])) = WsNormal(RawTitle(extracted[j])) )
              => Absorbed(j)

C7_Witness ==
    /\ pc = "returned"
    /\ \E i, j, k \in Positions(extracted) :
          /\ i < j
          /\ Siblings(extracted, i, j)
          /\ Siblings(extracted, i, k)
          /\ RawTitle(extracted[i]) # RawTitle(extracted[j])
          /\ WsNormal(RawTitle(extracted[i])) = WsNormal(RawTitle(extracted[j]))
          /\ Absorbed(j)
          /\ extracted[k].title # extracted[i].title
          /\ UpperStr(extracted[k].title) = UpperStr(extracted[i].title)
          /\ ~Absorbed(k)
          /\ ~Absorbed(i)

\* C8: sections titled with the generic placeholder are never merged with
\* each other: each stays a section of its own with its own content.
C8_PlaceholdersStaySeparate ==
    Returned =>
        \A i \in Positions(extracted) :
            extracted[i].title = Placeholder
            => \E k \in Positions(merged) : merged[k] = extracted[i]

\* C9: merge and renumber applied to their own result return it unchanged.
C9_MergeRenumberIdempotent == pc = "again" => again = sections

C9_Witness ==
    /\ pc = "again"
    /\ SomethingMerged
    /\ Len(sections) >= 2
    /\ \E i \in Positions(sections) : sections[i].section_number \notin Numbers(merged)

\* A title that is empty or whitespace only
Blank(t) == Strip(t) = <<>>

\* C10: every returned section has a title that is not blank and does not
\* contain UNCLASSIFIED.
C10_TitleNeverBlankNorUnclassified ==
    Returned =>
        \A i \in Positions(sections) :
            /\ ~Blank(sections[i].title)
            /\ ~HasUnclassified(sections[i].title)

\* C12: title resolution never fails for the caller: every section element
\* of the document, nested ones included, is in the list the walk returns.
C12_NoSectionDroppedForTitle ==
    Returned => ElemsOf(extracted) = 1..Len(doc)

(***************************************************************************)
(* HierarchicalParser.parse_xml_content: the value the caller receives     *)
(***************************************************************************)
None == [tag |-> "None"]

\* The version attribute: absent, an integer literal, or text int() rejects
Versions == {"absent", "2", "two"}

\* xml_content: whether etree.fromstring accepts it, the versionNumber value
\* and whether the tree has a structuredBody
XmlContents ==
    [wellformed : BOOLEAN, version : Versions, hasBody : BOOLEAN]

\* _extract_metadata: None when int() raises on the version
extract_metadata(x) ==
    IF x.version = "two" THEN None
    ELSE [tag |-> "dict", version |-> IF x.version = "absent" THEN 1 ELSE 2]

extract_sections_hierarchical(x, d) ==
    IF ~x.hasBody THEN <<>>
    ELSE renumber_sections(merge_duplicate_subsections(ParseTopLevel(d, TopElems(d), 1)))

\* The call reaches _extract_sections_hierarchical
ReachesSections(x) == x.wellformed /\ extract_metadata(x) # None

parse_xml_content_KeepEmpty(x, secs) ==
    IF ~x.wellformed THEN None
    ELSE IF extract_metadata(x) = None THEN None
    ELSE [tag |-> "dict", metadata |-> extract_metadata(x), sections |-> secs]

\* secs is the list _extract_sections_hierarchical returned
parse_xml_content(x, secs) ==
    IF ~x.wellformed THEN None
    ELSE IF extract_metadata(x) = None THEN None
    ELSE IF secs = <<>> THEN None
    ELSE [tag |-> "dict", metadata |-> extract_metadata(x), sections |-> secs]

\* A document of the structural or title kind, or one without any section;
\* bytes that do not parse and a tree without structuredBody hold no section
ParseInit ==
    /\ xml_content \in XmlContents
    /\ IF xml_content.wellformed /\ xml_content.hasBody
       THEN doc = <<>> \/ IsStructuralDoc(doc) \/ IsTitleDoc(doc)
       ELSE doc = <<>>
    /\ pc = "start"
    /\ extracted = <<>>
    /\ merged = <<>>
    /\ sections = <<>>
    /\ again = <<>>
    /\ result = NoResult
    /\ EtlIdle
    /\ UltraIdle
    /\ MoreIdle

ParseXmlContent ==
    /\ pc = "start"
    /\ sections' = IF ReachesSections(xml_content)
                   THEN extract_sections_hierarchical(xml_content, doc)
                   ELSE <<>>
    /\ result' = parse_xml_content(xml_content, sections')
    /\ pc' = "returned"
    /\ UNCHANGED <<doc, extracted, merged, again, xml_content, etlVars, ultraVars, moreVars>>

ParseNext == ParseXmlContent

ParseSpec == ParseInit /\ [][ParseNext]_vars

\* The document is well formed and its metadata is readable
Parseable == xml_content.wellformed /\ xml_content.version # "two"

\* No section came out of the document
ZeroSections == sections = <<>>

SmartMaxNodes == 3

\* A word of fifty characters
Filler == "<fifty characters>"

\* len() of one token
CharLen(c) ==
    CASE c \in {SP, LF, ".", "1", "2", "3", "4", "g", "a"} -> 1
      [] c = "mg" -> 2
      [] c \in {"SPL", "abc", "<p>"} -> 3
      [] c \in {"DRUG", "text", "</p>"} -> 4
      [] c = "Section" -> 7
      [] c \in {"Overview", "<strong>", "eightchr", "CLINICAL"} -> 8
      [] c \in {"</strong>", "ninechars"} -> 9
      [] c \in {"Unclassified", "UNCLASSIFIED", "INTERACTIONS", "PHARMACOLOGY"} -> 12
      [] c = "<p class=\"leading-relaxed mb-3\">" -> 32
      [] c = "<div class=\"mb-4 ...\">HIGH INFORMATION</div>" -> 180
      [] c = Filler -> 50

\* len(s)
RECURSIVE StrLen(_)
StrLen(s) == IF s = <<>> THEN 0 ELSE CharLen(Head(s)) + StrLen(Tail(s))

\* s[:n], for a cut that falls between two tokens
RECURSIVE Slice(_, _)
Slice(s, n) ==
    IF s = <<>> \/ CharLen(Head(s)) > n THEN <<>>
    ELSE <<Head(s)>> \o Slice(Tail(s), n - CharLen(Head(s)))

PotentialTitleLen == 100

ShortEnough == 50

\* 'SPL UNCLASSIFIED' in s.upper()
HasSplUnclassified(s) ==
    \E i \in 1..Len(s) :
        /\ i + 2 <= Len(s)
        /\ Upper(s[i]) = "SPL"
        /\ s[i + 1] = SP
        /\ Upper(s[i + 2]) = "UNCLASSIFIED"

\* The SECTION_TITLES entries the model's documents use
SmartSectionTitles == {"34073-7"}

SmartSectionTitle(code) == <<"DRUG", SP, "INTERACTIONS">>

\* _get_text_content of an element whose children are <content> runs
RECURSIVE get_text_content(_)
get_text_content(runs) ==
    IF runs = <<>> THEN <<>>
    ELSE LET r == Head(runs)
         IN  (IF r.style = "bold" THEN <<"<strong>">> \o r.text \o <<"</strong>">>
              ELSE r.text)
             \o get_text_content(Tail(runs))

\* ' '.join(elem.itertext()) over the paragraphs of a <text> block
RECURSIVE RunTexts(_)
RunTexts(runs) ==
    IF runs = <<>> THEN <<>> ELSE <<Head(runs).text>> \o RunTexts(Tail(runs))

RECURSIVE ParaTexts(_)
ParaTexts(paras) ==
    IF paras = <<>> THEN <<>> ELSE RunTexts(Head(paras)) \o ParaTexts(Tail(paras))

extract_plain_text(paras) == Join(ParaTexts(paras), <<SP>>)

\* str(n) for the numbers of a path, joined by '.'
RECURSIVE PathStr(_)
PathStr(path) ==
    IF path = <<>> THEN <<>>
    ELSE IF Len(path) = 1 THEN <<ToString(path[1])>>
    ELSE <<ToString(path[1]), ".">> \o PathStr(Tail(path))

\* f'UNKNOWN-{level}-{idx}'
UnknownCode(level, idx) == ToString(<<"UNKNOWN", level, idx>>)

\* The units re.findall returns for dosage_pattern: a unit word that follows
\* a number, with or without whitespace between them
DosageUnits(text) ==
    {text[k] : k \in {j \in 2..Len(text) :
        /\ text[j] \in {"mg", "g"}
        /\ \/ IsDigits(text[j - 1])
           \/ j > 2 /\ IsSpace(text[j - 1]) /\ IsDigits(text[j - 2])}}

\* _extract_structured_data: d[1] of a one-character unit is an IndexError
StructuredDataRaises(text) == \E u \in DosageUnits(text) : CharLen(u) < 2

\* The title of one section element (lines 232-253); path is section_path
SmartTitle(e, loinc_code, path) ==
    LET own == IF e.hasTitle THEN get_text_content(e.title) ELSE <<>>
        known == IF own = <<>> /\ loinc_code \in SmartSectionTitles
                 THEN SmartSectionTitle(loinc_code)
                 ELSE own
        potential_title ==
            IF e.paras = <<>> THEN <<>>
            ELSE Slice(get_text_content(e.paras[1]), PotentialTitleLen)
        inferred == IF e.paras # <<>> /\ StrLen(potential_title) < ShortEnough
                    THEN potential_title
                    ELSE known
    IN  IF known = <<>> \/ HasSplUnclassified(known)
        THEN IF inferred = <<>> \/ HasSplUnclassified(inferred)
             THEN <<"Section", SP>> \o PathStr(path)
             ELSE inferred
        ELSE known

\* structuredBody.findall('.//hl7:component/hl7:section'): the descendant
\* axis matches the section elements of every depth, in document order
AllSectionElems(d) == Indices(Len(d))

\* _parse_sections_recursive over the elements elems, from the idx-th on
RECURSIVE smart_parse_sections(_, _, _, _, _, _)
smart_parse_sections(d, elems, idx, parent_id, level, section_path_prefix) ==
    IF idx > Len(elems) THEN <<>>
    ELSE LET i == elems[idx]
             loinc_code == IF d[i].code # NoCode THEN d[i].code ELSE UnknownCode(level, idx)
             section_path == section_path_prefix \o <<idx>>
             parsed_section ==
                 [elem |-> i,
                  loinc_code |-> loinc_code,
                  title |-> SmartTitle(d[i], loinc_code, section_path),
                  parent_id |-> parent_id,
                  level |-> level,
                  order |-> idx,
                  section_path |-> section_path,
                  content_text |-> extract_plain_text(d[i].paras)]
         IN  <<parsed_section>>
             \o smart_parse_sections(d, ChildElems(d, i), 1, loinc_code, level + 1, section_path)
             \o smart_parse_sections(d, elems, idx + 1, parent_id, level, section_path_prefix)

\* SmartHybridParser._extract_metadata: a dict of the attributes found
smart_extract_metadata(x) ==
    IF x.version = "absent" THEN [tag |-> "dict"] ELSE [tag |-> "dict", version |-> x.version]

\* An exception that leaves parse_xml_content
Raised(what) == [tag |-> "raised", exception |-> what]

\* SmartHybridParser.parse_xml_content: nothing in it catches an exception
smart_parse_xml_content(x, d) ==
    LET walk == IF x.hasBody
                THEN smart_parse_sections(d, AllSectionElems(d), 1, "None", 1, <<>>)
                ELSE <<>>
    IN  IF ~x.wellformed THEN Raised("XMLSyntaxError")
        ELSE IF \E k \in 1..Len(walk) : StructuredDataRaises(walk[k].content_text)
        THEN Raised("IndexError")
        ELSE [tag |-> "dict", metadata |-> smart_extract_metadata(x), sections |-> walk]

\* One run of plain text
Plain(t) == <<[style |-> "plain", text |-> t]>>

SplUnclassifiedTitle == Plain(<<"SPL", SP, "Unclassified", SP, "Section">>)

\* The section elements of SmartHybridParser's documents
SmartKinds ==
    { [hasTitle |-> TRUE, title |-> Plain(<<"Overview">>), code |-> "34073-7",
       paras |-> <<Plain(<<"2", SP, "mg">>)>>],
      [hasTitle |-> TRUE, title |-> <<[style |-> "bold", text |-> <<"Overview">>]>>,
       code |-> NoCode, paras |-> <<>>],
      [hasTitle |-> FALSE, title |-> <<>>, code |-> "34073-7", paras |-> <<>>],
      [hasTitle |-> TRUE, title |-> Plain(<<SP>>), code |-> NoCode,
       paras |-> <<Plain(<<"Overview">>)>>],
      [hasTitle |-> TRUE, title |-> SplUnclassifiedTitle, code |-> "42229-5",
       paras |-> <<Plain(<<"Overview">>), Plain(<<"text">>)>>],
      [hasTitle |-> TRUE, title |-> SplUnclassifiedTitle, code |-> "42229-5",
       paras |-> <<Plain(<<Filler, Filler, "text">>)>>],
      [hasTitle |-> FALSE, title |-> <<>>, code |-> NoCode,
       paras |-> <<Plain(<<"2", SP, "g">>)>>] }

SmartElement(kind, depth) ==
    [hasTitle |-> kind.hasTitle, title |-> kind.title, code |-> kind.code,
     paras |-> kind.paras, depth |-> depth]

\* A document of up to SmartMaxNodes sections of any shape
IsSmartDoc(d) ==
    \E n \in 1..SmartMaxNodes : \E shape \in Shapes(n) : \E kinds \in [1..n -> SmartKinds] :
        d = [k \in 1..n |-> SmartElement(kinds[k], shape[k])]

\* Text that parses or not, with or without a structuredBody; only a
\* structuredBody holds section elements
SmartInit ==
    /\ xml_content \in XmlContents
    /\ IF xml_content.wellformed /\ xml_content.hasBody
       THEN doc = <<>> \/ IsSmartDoc(doc)
       ELSE doc = <<>>
    /\ pc = "start"
    /\ extracted = <<>>
    /\ merged = <<>>
    /\ sections = <<>>
    /\ again = <<>>
    /\ result = NoResult
    /\ EtlIdle
    /\ UltraIdle
    /\ MoreIdle

SmartParseXmlContent ==
    /\ pc = "start"
    /\ result' = smart_parse_xml_content(xml_content, doc)
    /\ pc' = "returned"
    /\ UNCHANGED <<doc, extracted, merged, sections, again, xml_content, etlVars, ultraVars, moreVars>>

SmartNext == SmartParseXmlContent

SmartSpec == SmartInit /\ [][SmartNext]_vars

\* parse_xml_content has returned a document
SmartReturned == pc = "returned" /\ result.tag = "dict"

\* C11: every ParsedSection has a title that is neither empty nor whitespace
\* only and that does not contain 'SPL UNCLASSIFIED'.
C11_SmartTitleNeverBlank ==
    SmartReturned =>
        \A k \in 1..Len(result.sections) :
            /\ ~Blank(result.sections[k].title)
            /\ ~HasSplUnclassified(result.sections[k].title)

\* C13: each section element is emitted exactly once, in pre-order, with
\* level equal to its nesting depth and as many section_path segments as
\* its level.
C13_EachSectionOnceInPreOrder ==
    SmartReturned =>
        /\ Len(result.sections) = Len(doc)
        /\ \A k \in 1..Len(result.sections) :
              /\ result.sections[k].elem = k
              /\ result.sections[k].level = doc[k].depth
              /\ Len(result.sections[k].section_path) = result.sections[k].level

\* C17: parse_xml_content never ends in an exception, and a document
\* without a structuredBody is reported as a failure, not as a document.
C17_NoUncaughtFaultAndNoBodyFails ==
    pc = "returned" =>
        /\ result.tag # "raised"
        /\ xml_content.wellformed /\ ~xml_content.hasBody => result.tag # "dict"

(***************************************************************************)
(* FDAXMLParser (backend/etl/parser.py): the flat section list             *)
(*                                                                         *)
(* The <text> block of a section is the sequence of its child elements,    *)
(* each with a tag and its text.                                           *)
(***************************************************************************)
\* Largest number of <section> elements in an FDAXMLParser document.
FdaMaxNodes == 3

MinContentLen == 10

\* The LOINC_SECTIONS entries the model's documents use
FdaLoincSections == {"34073-7"}

FdaLoincTitle(code) == DrugInteractions

\* section_elem.find('.//hl7:code'): the first <code> of the subtree
RECURSIVE FirstCodeFrom(_, _, _)
FirstCodeFrom(d, k, last) ==
    IF k > last THEN NoCode
    ELSE IF d[k].code # NoCode THEN d[k].code
    ELSE FirstCodeFrom(d, k + 1, last)

\* _process_child_element for <paragraph> and for <content> without style
fda_process_child_element(child) ==
    IF child.tag = "paragraph" THEN <<"<p>">> \o Strip(child.text) \o <<"</p>">>
    ELSE Strip(child.text)

\* _xml_to_html of one <text> block
fda_xml_to_html(text) ==
    Join(SelectSeq([k \in 1..Len(text) |-> fda_process_child_element(text[k])], NonEmpty),
         <<LF>>)

\* section_elem.findall('.//hl7:text'): the <text> blocks of the subtree
SubtreeTexts(d, i) == [k \in 1..(SubtreeEnd(d, i) - i + 1) |-> d[i + k - 1].text]

fda_extract_text_content(d, i) ==
    LET text_elems == SubtreeTexts(d, i)
        html_parts == SelectSeq([k \in 1..Len(text_elems) |-> fda_xml_to_html(text_elems[k])],
                                NonEmpty)
    IN  Join(html_parts, <<LF, LF>>)

\* _parse_section: <<>> stands for None
fda_parse_section(d, i, order) ==
    LET loinc_code == FirstCodeFrom(d, i, SubtreeEnd(d, i))
        title == IF d[i].hasTitle /\ d[i].title # <<>> THEN Strip(d[i].title)
                 ELSE FdaLoincTitle(loinc_code)
        content == fda_extract_text_content(d, i)
    IN  IF loinc_code = NoCode \/ loinc_code \notin FdaLoincSections THEN <<>>
        ELSE IF content = <<>> \/ StrLen(Strip(content)) < MinContentLen THEN <<>>
        ELSE <<[elem |-> i, loinc_code |-> loinc_code, title |-> title,
                content |-> content, order |-> order]>>

\* _extract_sections: every section element of the tree, of any depth
RECURSIVE fda_extract_sections(_, _, _)
fda_extract_sections(d, i, order) ==
    IF i > Len(d) THEN <<>>
    ELSE LET section_data == fda_parse_section(d, i, order)
         IN  section_data
             \o fda_extract_sections(d, i + 1, IF section_data # <<>> THEN order + 1 ELSE order)

\* Text blocks: none, and one child of each kind and length
FdaTexts ==
    { <<>>,
      <<[tag |-> "paragraph", text |-> <<"a">>]>>,
      <<[tag |-> "paragraph", text |-> <<"abc">>]>>,
      <<[tag |-> "paragraph", text |-> <<LF, SP, "ninechars">>]>>,
      <<[tag |-> "content", text |-> <<"eightchr">>]>>,
      <<[tag |-> "content", text |-> <<"ninechars">>]>> }

FdaKinds ==
    { [hasTitle |-> TRUE, title |-> <<"Overview">>, code |-> "34073-7", text |-> t] :
        t \in FdaTexts }
    \cup
    { [hasTitle |-> FALSE, title |-> <<>>, code |-> c,
       text |-> <<[tag |-> "paragraph", text |-> <<"ninechars">>]>>] :
        c \in {"34073-7", "99999-9", NoCode} }

\* The text of the k-th section element ends with the word k
Numbered(text, k) ==
    [j \in 1..Len(text) |->
        [tag |-> text[j].tag, text |-> text[j].text \o <<ToString(k)>>]]

FdaElement(kind, depth, k) ==
    [hasTitle |-> kind.hasTitle, title |-> kind.title, code |-> kind.code,
     text |-> Numbered(kind.text, k), depth |-> depth]

IsFdaDoc(d) ==
    \E n \in 1..FdaMaxNodes : \E shape \in Shapes(n) : \E kinds \in [1..n -> FdaKinds] :
        d = [k \in 1..n |-> FdaElement(kinds[k], shape[k], k)]

FdaInit ==
    /\ IsFdaDoc(doc)
    /\ pc = "start"
    /\ extracted = <<>>
    /\ merged = <<>>
    /\ sections = <<>>
    /\ again = <<>>
    /\ xml_content = ParsedBody
    /\ result = NoResult
    /\ EtlIdle
    /\ UltraIdle
    /\ MoreIdle

FdaExtractSections ==
    /\ pc = "start"
    /\ sections' = fda_extract_sections(doc, 1, 0)
    /\ pc' = "returned"
    /\ UNCHANGED <<doc, extracted, merged, again, xml_content, result, etlVars, ultraVars, moreVars>>

FdaNext == FdaExtractSections

FdaSpec == FdaInit /\ [][FdaNext]_vars

\* The word that marks the text of element k occurs in the content s
HasTextOf(s, k) == \E j \in 1..Len(s) : s[j] = ToString(k)

\* C14: the content of a section is the rendering of its own text block
\* only, and the text of a nested section is in at most one output section.
C14_ContentIsOwnTextOnly ==
    Returned =>
        /\ \A j \in Positions(sections) :
              sections[j].content = fda_xml_to_html(doc[sections[j].elem].text)
        /\ \A k \in 1..Len(doc) :
              Cardinality({j \in Positions(sections) : HasTextOf(sections[j].content, k)}) <= 1

\* The text of a <text> block without its markup, whitespace collapsed
FdaPlainText(text) ==
    Strip(CollapseWs(Join([k \in 1..Len(text) |-> text[k].text], <<SP>>)))

\* C15: a section with a recognised code and no nested section is absent
\* from the result exactly when its plain text, whitespace collapsed, is
\* shorter than 10 characters, whatever markup wraps the text.
C15_DropOnPlainTextLength ==
    Returned =>
        \A i \in 1..Len(doc) :
            doc[i].code \in FdaLoincSections /\ SubtreeEnd(doc, i) = i =>
                (i \notin ElemsOf(sections) <=> StrLen(FdaPlainText(doc[i].text)) < MinContentLen)

(***************************************************************************)
(* ETLBuilder.process_batch (backend/etl/etl_builder.py)                   *)
(*                                                                         *)
(* drug_labels is the drug_labels table: the set_id of each row, row k     *)
(* having the id k.  processing_log is the processing_logs table.          *)
(***************************************************************************)
\* Largest number of files in a batch.
MaxFiles == 3

\* What goes wrong with a file: nothing, parse_zip_file returns None, a
\* transform step raises, or the database save fails and is rolled back
Faults == {"none", "parse", "raise", "save"}

SetIds == {"A", "B"}

\* The return value None of process_fda_label; the ids of rows start at 1
NoId == 0

\* _save_to_database: the id of the existing row of this set_id and version,
\* or the id of the row it adds
RowOf(labels, set_id) == {k \in 1..Len(labels) : labels[k] = set_id}

save_to_database(labels, file) ==
    IF file.fault = "save" THEN [id |-> NoId, labels |-> labels]
    ELSE IF RowOf(labels, file.set_id) # {}
    THEN [id |-> CHOOSE k \in RowOf(labels, file.set_id) : TRUE, labels |-> labels]
    ELSE [id |-> Len(labels) + 1, labels |-> Append(labels, file.set_id)]

\* process_fda_label: the id it returns, the table and the log row it writes
process_fda_label(labels, file) ==
    LET saved == save_to_database(labels, file)
    IN  IF file.fault \in {"parse", "raise"}
        THEN [id |-> NoId, labels |-> labels,
              log |-> [source_file |-> file.name, status |-> "failed"]]
        ELSE [id |-> saved.id, labels |-> saved.labels,
              log |-> [source_file |-> file.name,
                       status |-> IF saved.id # NoId THEN "completed" ELSE "failed"]]

tally_DropFailed(res, drug_label_id) ==
    IF drug_label_id # NoId
    THEN [res EXCEPT !.success = @ + 1, !.drug_label_ids = Append(@, drug_label_id)]
    ELSE res

\* The body of the loop of process_batch after process_fda_label returned
tally(res, drug_label_id) ==
    IF drug_label_id # NoId
    THEN [res EXCEPT !.success = @ + 1, !.drug_label_ids = Append(@, drug_label_id)]
    ELSE [res EXCEPT !.failed = @ + 1]

\* A batch of up to MaxFiles files; the k-th file is named k
IsBatch(files) ==
    \E n \in 0..MaxFiles : \E kinds \in [1..n -> [set_id : SetIds, fault : Faults]] :
        files = [k \in 1..n |-> [name |-> k, set_id |-> kinds[k].set_id, fault |-> kinds[k].fault]]

\* process_batch is entered with fresh results; the database is empty or
\* holds the label "A" from an earlier run
BatchInit ==
    /\ IsBatch(file_paths)
    /\ file_idx = 1
    /\ results = [success |-> 0, failed |-> 0, drug_label_ids |-> <<>>]
    /\ drug_labels \in {<<>>, <<"A">>}
    /\ processing_log = <<>>
    /\ UltraIdle
    /\ MoreIdle
    /\ pc = "start"
    /\ doc = <<>>
    /\ extracted = <<>>
    /\ merged = <<>>
    /\ sections = <<>>
    /\ again = <<>>
    /\ xml_content = ParsedBody
    /\ result = NoResult

notEtl == <<doc, extracted, merged, sections, again, xml_content, ultraVars, moreVars>>

\* One iteration of `for file_path in file_paths`
ProcessFile ==
    /\ pc = "start"
    /\ file_idx <= Len(file_paths)
    /\ LET done == process_fda_label(drug_labels, file_paths[file_idx])
       IN  /\ drug_labels' = done.labels
           /\ processing_log' = Append(processing_log, done.log)
           /\ results' = tally(results, done.id)
    /\ file_idx' = file_idx + 1
    /\ UNCHANGED <<pc, result, file_paths>>
    /\ UNCHANGED notEtl

\* The loop is over: return results
BatchComplete ==
    /\ pc = "start"
    /\ file_idx > Len(file_paths)
    /\ pc' = "returned"
    /\ result' = results
    /\ UNCHANGED etlVars
    /\ UNCHANGED notEtl

BatchNext == ProcessFile \/ BatchComplete

BatchSpec == BatchInit /\ [][BatchNext]_vars

\* The positions of the files nothing goes wrong with, in batch order
Succeeding == SelectSeq(Indices(Len(file_paths)), LAMBDA k : file_paths[k].fault = "none")

\* The id of the row that holds the label of the k-th file
LabelIdOf(k) == CHOOSE r \in 1..Len(drug_labels) : drug_labels[r] = file_paths[k].set_id

\* C18: every file of the batch is attempted, in order, whatever happened to
\* the files before it; success + failed is the number of files and
\* drug_label_ids holds the ids of the files that succeeded.
C18_EveryFileCounted ==
    /\ results.success + results.failed = file_idx - 1
    /\ Len(processing_log) = file_idx - 1
    /\ \A k \in 1..Len(processing_log) : processing_log[k].source_file = file_paths[k].name
    /\ pc = "returned" =>
          /\ result.success + result.failed = Len(file_paths)
          /\ result.success = Len(Succeeding)
          /\ Len(result.drug_label_ids) = Len(Succeeding)
          /\ \A j \in 1..Len(Succeeding) : result.drug_label_ids[j] = LabelIdOf(Succeeding[j])

\* A batch has returned in which a file failed before one that succeeded
C18_Witness ==
    /\ pc = "returned"
    /\ \E j, k \in 1..Len(file_paths) :
          /\ j < k
          /\ file_paths[j].fault # "none"
          /\ file_paths[k].fault = "none"
    /\ result.failed >= 1
    /\ result.success >= 1

(***************************************************************************)
(* UltraRefinedParser (backend/etl/parser_ultra_refined.py): the section   *)
(* numbers drawn from self.section_counter                                 *)
(*                                                                         *)
(* section_counter maps a key to a count; the key 'root' is the empty      *)
(* number <<>> and the key of a subsection is its parent's number.  Two    *)
(* threads call parse_xml_content on one parser; a step of a call is one   *)
(* access to self.section_counter.                                         *)
(***************************************************************************)
\* Largest number of <section> elements in an UltraRefinedParser document.
UltraMaxNodes == 2

Badge == "<div class=\"mb-4 ...\">HIGH INFORMATION</div>"

POpen == "<p class=\"leading-relaxed mb-3\">"

\* The LOINC_SECTIONS entries the model's documents use
UltraLoincSections == {"34073-7", "34090-1"}

UltraMeta(code) ==
    IF code = "34073-7"
    THEN [title |-> <<"DRUG", SP, "INTERACTIONS">>, importance |-> "high"]
    ELSE [title |-> <<"CLINICAL", SP, "PHARMACOLOGY">>, importance |-> "medium"]

\* The meta _parse_subsection_refined passes for every subsection
SubsectionMeta == [importance |-> "medium"]

\* _extract_content_ultra_refined: the badge and the paragraphs
ultra_content(e, meta) ==
    IF ~e.hasText THEN <<>>
    ELSE Join((IF meta.importance \in {"critical", "high"} THEN << <<Badge>> >> ELSE <<>>)
              \o [k \in 1..Len(e.paras) |-> <<POpen>> \o Strip(e.paras[k]) \o <<"</p>">>],
              <<LF>>)

\* title_elem.text.strip() if title_elem is not None and title_elem.text
ultra_title(e, fallback) == IF HasTitleText(e) THEN Strip(e.title) ELSE fallback

\* _parse_section_ultra_refined returns None before it draws a number
Unrecognised(e) == e.code = NoCode \/ e.code \notin UltraLoincSections

\* _parse_section_ultra_refined returns None after it drew a number
TooShort(e) ==
    LET content_html == ultra_content(e, UltraMeta(e.code))
    IN  content_html = <<>> \/ StrLen(Strip(content_html)) < MinContentLen

\* The numberings one call performs, in order: every section element of
\* the tree (findall('.//hl7:component/hl7:section')) and, after a section
\* that is kept, its direct subsections
RECURSIVE UltraTasks(_, _)
UltraTasks(d, i) ==
    IF i > Len(d) THEN <<>>
    ELSE <<[kind |-> "section", elem |-> i]>>
         \o (IF Unrecognised(d[i]) \/ TooShort(d[i]) THEN <<>>
             ELSE LET kids == ChildElems(d, i)
                  IN  [k \in 1..Len(kids) |-> [kind |-> "subsection", elem |-> kids[k]]])
         \o UltraTasks(d, i + 1)

\* The dict emitted for a task once its number is known; <<>> for None
ultra_emit(d, task, section_number) ==
    LET e == d[task.elem]
    IN  IF task.kind = "section"
        THEN IF TooShort(e) THEN <<>>
             ELSE <<[elem |-> task.elem,
                     section_number |-> section_number,
                     title |-> ultra_title(e, UltraMeta(e.code).title),
                     content |-> ultra_content(e, UltraMeta(e.code)),
                     level |-> 1]>>
        ELSE IF ultra_content(e, SubsectionMeta) = <<>> THEN <<>>
             ELSE <<[elem |-> task.elem,
                     section_number |-> section_number,
                     title |-> ultra_title(e, <<"Section", SP>> \o PathStr(section_number)),
                     content |-> ultra_content(e, SubsectionMeta),
                     level |-> 2]>>

\* if key not in self.section_counter: self.section_counter[key] = 0
EnsureKey(counter, key) ==
    [k \in DOMAIN counter \cup {key} |-> IF k \in DOMAIN counter THEN counter[k] ELSE 0]

\* self.section_counter[key] += 1
Increment(counter, key) == [counter EXCEPT ![key] = @ + 1]

ResetCounterKeep(counter) == counter

\* self.section_counter = {} at the start of _extract_sections_ultra_refined
ResetCounter(counter) == EmptyCounter

\* The position after a task whose numbering raised KeyError: the except
\* clause returns None, and a section that returns None parses no subsection
RECURSIVE SkipSubsections(_, _)
SkipSubsections(tasks, p) ==
    IF p <= Len(tasks) /\ tasks[p].kind = "subsection" THEN SkipSubsections(tasks, p + 1) ELSE p

AfterFailure(tasks, pos) ==
    IF tasks[pos].kind = "section" THEN SkipSubsections(tasks, pos + 1) ELSE pos + 1

\* The section elements of UltraRefinedParser's documents
UltraKinds ==
    { [hasTitle |-> TRUE, title |-> <<"Overview", LF>>, code |-> "34073-7", hasText |-> TRUE,
       paras |-> 1],
      [hasTitle |-> FALSE, title |-> <<>>, code |-> "34090-1", hasText |-> TRUE, paras |-> 0],
      [hasTitle |-> TRUE, title |-> <<"Overview">>, code |-> "99999-9", hasText |-> TRUE,
       paras |-> 1],
      [hasTitle |-> FALSE, title |-> <<>>, code |-> "34073-7", hasText |-> TRUE, paras |-> 1] }

\* The paragraph of the k-th section element holds the word k
UltraElement(kind, depth, k) ==
    [hasTitle |-> kind.hasTitle, title |-> kind.title, code |-> kind.code,
     hasText |-> kind.hasText, depth |-> depth,
     paras |-> [j \in 1..kind.paras |-> <<SP, ToString(k)>>]]

IsUltraDoc(d) ==
    \E n \in 1..UltraMaxNodes : \E shape \in Shapes(n) : \E kinds \in [1..n -> UltraKinds] :
        d = [k \in 1..n |-> UltraElement(kinds[k], shape[k], k)]

\* The document parsed between two parses of doc: a section with a
\* subsection
OtherDoc ==
    LET kind == CHOOSE k \in UltraKinds : k.code = "34073-7" /\ ~k.hasTitle
    IN  <<UltraElement(kind, 1, 1), UltraElement(kind, 2, 2)>>

\* Largest number of calls one thread makes in sequence.
MaxCalls == 3

\* The calls of the two threads that share the parser: doc, or OtherDoc
Labels == {"doc", "other"}

DocOf(label) == IF label = "doc" THEN doc ELSE OtherDoc

notUltra == <<doc, pc, extracted, merged, sections, again, xml_content, result, etlVars,
             moreVars>>

UltraRest ==
    /\ pc = "start"
    /\ extracted = <<>>
    /\ merged = <<>>
    /\ sections = <<>>
    /\ again = <<>>
    /\ xml_content = ParsedBody
    /\ result = NoResult
    /\ EtlIdle
    /\ MoreIdle

\* Two threads, each about to call parse_xml_content once on the parser
UltraInit ==
    /\ IsUltraDoc(doc)
    /\ section_counter = EmptyCounter
    /\ calls = [t \in {1, 2} |-> IdleCall(1)]
    /\ UltraRest

\* One thread that calls parse_xml_content up to MaxCalls times in sequence
SeqInit ==
    /\ IsUltraDoc(doc)
    /\ section_counter = EmptyCounter
    /\ calls = [t \in {1, 2} |-> IdleCall(IF t = 1 THEN MaxCalls ELSE 0)]
    /\ UltraRest

Running(t) == calls[t].status = "running"

CurrentTask(t) == calls[t].tasks[calls[t].pos]

\* 'root' for a section, the parent's number for a subsection
KeyOf(t) == IF CurrentTask(t).kind = "section" THEN <<>> ELSE calls[t].number

\* parse_xml_content is called, on doc or on OtherDoc, and reaches the
\* first statements of _extract_sections_ultra_refined
StartCall(t) ==
    /\ ~Running(t)
    /\ calls[t].budget > 0
    /\ \E label \in Labels :
          calls' = [calls EXCEPT
                      ![t].status = "running",
                      ![t].label = label,
                      ![t].d = DocOf(label),
                      ![t].tasks = UltraTasks(DocOf(label), 1),
                      ![t].pos = 1,
                      ![t].step = "ensure",
                      ![t].number = <<>>,
                      ![t].out = <<>>,
                      ![t].stale = DOMAIN section_counter # {},
                      ![t].budget = @ - 1]
    /\ section_counter' = ResetCounter(section_counter)
    /\ UNCHANGED notUltra

\* A section without a recognised code returns None
SkipSection(t) ==
    /\ Running(t)
    /\ calls[t].pos <= Len(calls[t].tasks)
    /\ calls[t].step = "ensure"
    /\ CurrentTask(t).kind = "section"
    /\ Unrecognised(calls[t].d[CurrentTask(t).elem])
    /\ calls' = [calls EXCEPT ![t].pos = @ + 1]
    /\ UNCHANGED section_counter
    /\ UNCHANGED notUltra

\* if key not in self.section_counter: self.section_counter[key] = 0
Ensure(t) ==
    /\ Running(t)
    /\ calls[t].pos <= Len(calls[t].tasks)
    /\ calls[t].step = "ensure"
    /\ ~(CurrentTask(t).kind = "section" /\ Unrecognised(calls[t].d[CurrentTask(t).elem]))
    /\ section_counter' = EnsureKey(section_counter, KeyOf(t))
    /\ calls' = [calls EXCEPT ![t].step = "incr"]
    /\ UNCHANGED notUltra

\* self.section_counter[key] += 1
Incr(t) ==
    /\ Running(t)
    /\ calls[t].step = "incr"
    /\ KeyOf(t) \in DOMAIN section_counter
    /\ section_counter' = Increment(section_counter, KeyOf(t))
    /\ calls' = [calls EXCEPT ![t].step = "read"]
    /\ UNCHANGED notUltra

\* The number is formatted from self.section_counter[key] and the section
\* or subsection is built
Read(t) ==
    /\ Running(t)
    /\ calls[t].step = "read"
    /\ KeyOf(t) \in DOMAIN section_counter
    /\ LET section_number == KeyOf(t) \o <<section_counter[KeyOf(t)]>>
       IN  calls' = [calls EXCEPT
                       ![t].out = @ \o ultra_emit(calls[t].d, CurrentTask(t), section_number),
                       ![t].number = IF CurrentTask(t).kind = "section"
                                     THEN section_number ELSE @,
                       ![t].pos = @ + 1,
                       ![t].step = "ensure"]
    /\ UNCHANGED section_counter
    /\ UNCHANGED notUltra

\* The key is gone (the other call replaced the dict): KeyError, caught by
\* the except clause of the section or subsection, which returns None
KeyErrorCaught(t) ==
    /\ Running(t)
    /\ calls[t].step \in {"incr", "read"}
    /\ KeyOf(t) \notin DOMAIN section_counter
    /\ calls' = [calls EXCEPT ![t].pos = AfterFailure(calls[t].tasks, @),
                              ![t].step = "ensure"]
    /\ UNCHANGED section_counter
    /\ UNCHANGED notUltra

\* _extract_sections_ultra_refined returns sections
ReturnSections(t) ==
    /\ Running(t)
    /\ calls[t].pos > Len(calls[t].tasks)
    /\ calls' = [calls EXCEPT
                   ![t].status = "returned",
                   ![t].made = Append(@, [label |-> calls[t].label, out |-> calls[t].out])]
    /\ UNCHANGED section_counter
    /\ UNCHANGED notUltra

UltraNext ==
    \E t \in {1, 2} :
        \/ StartCall(t)
        \/ SkipSection(t)
        \/ Ensure(t)
        \/ Incr(t)
        \/ Read(t)
        \/ KeyErrorCaught(t)
        \/ ReturnSections(t)

UltraSpec == UltraInit /\ [][UltraNext]_vars

\* A single thread never finds its key gone
SeqNext ==
    \E t \in {1, 2} :
        \/ StartCall(t)
        \/ SkipSection(t)
        \/ Ensure(t)
        \/ Incr(t)
        \/ Read(t)
        \/ ReturnSections(t)

SeqSpec == SeqInit /\ [][SeqNext]_vars

\* What _extract_sections_ultra_refined returns when no other call runs
\* on the parser: the numberings of the tasks, one after the other
RECURSIVE AloneFrom(_, _, _, _, _)
AloneFrom(d, tasks, pos, counter, number) ==
    IF pos > Len(tasks) THEN <<>>
    ELSE IF tasks[pos].kind = "section" /\ Unrecognised(d[tasks[pos].elem])
    THEN AloneFrom(d, tasks, pos + 1, counter, number)
    ELSE LET key == IF tasks[pos].kind = "section" THEN <<>> ELSE number
             counted == Increment(EnsureKey(counter, key), key)
             section_number == key \o <<counted[key]>>
         IN  ultra_emit(d, tasks[pos], section_number)
             \o AloneFrom(d, tasks, pos + 1, counted,
                          IF tasks[pos].kind = "section" THEN section_number ELSE number)

Alone(d) == AloneFrom(d, UltraTasks(d, 1), 1, EmptyCounter, <<>>)

SectionNumbers(out) == [k \in 1..Len(out) |-> out[k].section_number]

\* C19: two calls that run concurrently on one parser return the section
\* numbers each of them returns when it runs alone.
C19_ConcurrentCallsNumberAsAlone ==
    \A t \in {1, 2} :
        calls[t].status = "returned" =>
            SectionNumbers(calls[t].out) = SectionNumbers(Alone(calls[t].d))

\* C20: calls made one after the other on one parser return, for the same
\* document, the same section numbers, titles and contents, whatever was
\* parsed before: the result is the one of a parse on a fresh parser.
C20_RepeatedParseIdentical ==
    LET made == calls[1].made
    IN  /\ \A i, j \in 1..Len(made) :
              made[i].label = made[j].label => made[i].out = made[j].out
        /\ \A i \in 1..Len(made) : made[i].out = Alone(DocOf(made[i].label))

\* doc, OtherDoc and doc again have been parsed in sequence; the last call
\* found entries in section_counter and numbered a section and a subsection
C20_Witness ==
    LET made == calls[1].made
    IN  /\ calls[1].status = "returned"
        /\ Len(made) = 3
        /\ <<made[1].label, made[2].label, made[3].label>> = <<"doc", "other", "doc">>
        /\ doc # OtherDoc
        /\ calls[1].stale
        /\ \E k \in 1..Len(made[3].out) : Len(made[3].out[k].section_number) = 2
        /\ made[3].out # made[2].out

\* The sections of a result at one level, in the order returned
AtLevel(out, level) == SelectSeq(out, LAMBDA s : s.level = level)

\* The subsections a result holds for the section numbered p
SubsectionsOf(out, p) ==
    SelectSeq(out, LAMBDA s : s.level = 2 /\ DropLast(s.section_number) = p)

\* C21: the top-level sections a call returns are numbered 1..N in order
\* and the subsections returned for a section numbered p are numbered
\* p.1..p.M, also when candidates were rejected for their content.
C21_NumbersWithoutGaps ==
    calls[1].status = "returned" =>
        LET out == calls[1].out
            tops == AtLevel(out, 1)
        IN  /\ \A k \in 1..Len(tops) : tops[k].section_number = <<k>>
            /\ \A k \in 1..Len(tops) :
                  LET subs == SubsectionsOf(out, tops[k].section_number)
                  IN  \A j \in 1..Len(subs) :
                          subs[j].section_number = tops[k].section_number \o <<j>>

(***************************************************************************)
(* HierarchicalParser: the renderer of a section's <text> block            *)
(* (_extract_section_content and the _render_* methods)                    *)
(*                                                                         *)
(* An element is a record of its tag, an attribute (styleCode or           *)
(* listType), its text, its children and its tail; None and '' are both    *)
(* <<>>.  A generated tag is one token; the characters '<', '>' and '&'    *)
(* of source text are tokens of their own.                                 *)
(***************************************************************************)
Elem(tag, attr, text, children, tail) ==
    [tag |-> tag, attr |-> attr, text |-> text, children |-> children, tail |-> tail]

\* _should_skip_element
should_skip_element(element) ==
    \/ element.tag \in {"renderMultiMedia", "observationMedia"}
    \/ (element.text = <<>> /\ Len(element.children) = 0)

RECURSIVE extract_text_from_element(_)
RECURSIVE ChildTextParts(_, _)

\* The parts the loop over the children of _extract_text_from_element adds
ChildTextParts(children, k) ==
    IF k > Len(children) THEN <<>>
    ELSE LET child == children[k]
             child_text == IF should_skip_element(child) THEN <<>>
                           ELSE extract_text_from_element(child)
         IN  (IF child_text # <<>> THEN <<child_text>> ELSE <<>>)
             \o (IF child.tail # <<>> THEN <<Strip(child.tail)>> ELSE <<>>)
             \o ChildTextParts(children, k + 1)

\* _extract_text_from_element
extract_text_from_element(element) ==
    LET text_parts == (IF element.text # <<>> THEN <<Strip(element.text)>> ELSE <<>>)
                      \o ChildTextParts(element.children, 1)
    IN  Strip(Join(text_parts, <<SP>>))

\* The descendants of an element with a tag, in document order
\* (findall('.//hl7:tag'))
RECURSIVE Descendants(_, _)
RECURSIVE DescendantsFrom(_, _, _)
DescendantsFrom(children, k, tag) ==
    IF k > Len(children) THEN <<>>
    ELSE (IF children[k].tag = tag THEN <<children[k]>> ELSE <<>>)
         \o Descendants(children[k], tag)
         \o DescendantsFrom(children, k + 1, tag)

Descendants(element, tag) == DescendantsFrom(element.children, 1, tag)

\* findall('./hl7:tag')
ChildrenTagged(element, tag) == SelectSeq(element.children, LAMBDA c : c.tag = tag)

\* The tags the renderer generates
PTag == "<p class=\"mb-4 leading-relaxed text-gray-800\">"
LiTag == "<li class=\"mb-2\">"
OlTag == "<ol class=\"list-decimal ml-6 my-3 space-y-2\">"
UlTag == "<ul class=\"list-disc ml-6 my-3 space-y-2\">"
DivTag == "<div class=\"my-4 overflow-x-auto\">"
TableTag == "<table class=\"min-w-full border border-gray-300 bg-white\">"
CaptionTag == "<caption class=\"text-sm font-semibold mb-2 text-left px-2\">"
TheadTag == "<thead class=\"bg-gray-50\">"
ThTag == "<th class=\"border border-gray-300 px-3 py-2 text-left text-sm font-semibold text-gray-700\">"
TdTag == "<td class=\"border border-gray-300 px-3 py-2 text-sm text-gray-800\">"
StrongTag == "<strong class=\"font-bold\">"
EmTag == "<em class=\"italic\">"
UTag == "<u class=\"underline\">"

\* <tr class="bg-white"> for the even rows, <tr class="bg-gray-50"> for the odd
RowTag(row_idx) ==
    IF row_idx % 2 = 0 THEN "<tr class=\"bg-white\">" ELSE "<tr class=\"bg-gray-50\">"

\* _extract_table_caption
extract_table_caption(table_elem) ==
    LET found == Descendants(table_elem, "caption")
    IN  IF found # <<>> THEN extract_text_from_element(found[1]) ELSE <<>>

\* [self._extract_text_from_element(c).strip() for c in cells]
CellTexts(cells) == [k \in 1..Len(cells) |-> Strip(extract_text_from_element(cells[k]))]

\* any(row)
AnyCell(row) == \E k \in 1..Len(row) : row[k] # <<>>

\* The rows the loop over tbody.findall('.//hl7:tr') collects
RECURSIVE BodyRows(_, _)
BodyRows(trs, k) ==
    IF k > Len(trs) THEN <<>>
    ELSE LET row == CellTexts(Descendants(trs[k], "td"))
         IN  (IF AnyCell(row) THEN <<row>> ELSE <<>>) \o BodyRows(trs, k + 1)

\* _extract_table_data
extract_table_data(table_elem) ==
    LET theads == Descendants(table_elem, "thead")
        tbodies == Descendants(table_elem, "tbody")
    IN  [headers |-> IF theads # <<>> THEN CellTexts(Descendants(theads[1], "th")) ELSE <<>>,
         rows |-> IF tbodies # <<>> THEN BodyRows(Descendants(tbodies[1], "tr"), 1) ELSE <<>>]

\* <thead>: one row of the header cells
RECURSIVE HeaderCells(_, _)
HeaderCells(headers, k) ==
    IF k > Len(headers) THEN <<>>
    ELSE <<ThTag>> \o headers[k] \o <<"</th>">> \o HeaderCells(headers, k + 1)

RECURSIVE DataCells(_, _)
DataCells(row, k) ==
    IF k > Len(row) THEN <<>>
    ELSE <<TdTag>> \o row[k] \o <<"</td>">> \o DataCells(row, k + 1)

\* <tbody>: the rows, row_idx counting from 0
RECURSIVE DataRows(_, _)
DataRows(rows, k) ==
    IF k > Len(rows) THEN <<>>
    ELSE <<RowTag(k - 1)>> \o DataCells(rows[k], 1) \o <<"</tr>">> \o DataRows(rows, k + 1)

\* _render_table
render_table(table_elem) ==
    LET caption == extract_table_caption(table_elem)
        data == extract_table_data(table_elem)
    IN  IF data.rows = <<>> /\ data.headers = <<>>
        THEN <<>>
        ELSE <<DivTag, TableTag>>
             \o (IF caption # <<>> THEN <<CaptionTag>> \o caption \o <<"</caption>">> ELSE <<>>)
             \o (IF data.headers # <<>>
                 THEN <<TheadTag, "<tr>">> \o HeaderCells(data.headers, 1)
                      \o <<"</tr>", "</thead>">>
                 ELSE <<>>)
             \o (IF data.rows # <<>>
                 THEN <<"<tbody>">> \o DataRows(data.rows, 1) \o <<"</tbody>">>
                 ELSE <<>>)
             \o <<"</table>", "</div>">>

RECURSIVE render_element_to_html(_)
RECURSIVE ParagraphChildParts(_, _)
RECURSIVE ItemChildParts(_, _)
RECURSIVE StyledChildParts(_, _)
RECURSIVE ListItems(_, _)

\* The parts the loop over the children of _render_paragraph adds
ParagraphChildParts(children, k) ==
    IF k > Len(children) THEN <<>>
    ELSE LET child_html == render_element_to_html(children[k])
             tail == Strip(children[k].tail)
         IN  (IF child_html # <<>> THEN <<child_html>> ELSE <<>>)
             \o (IF tail # <<>> THEN <<tail>> ELSE <<>>)
             \o ParagraphChildParts(children, k + 1)

\* _render_paragraph
render_paragraph_elem(para_elem) ==
    LET text == Strip(para_elem.text)
        parts == (IF text # <<>> THEN <<text>> ELSE <<>>)
                 \o ParagraphChildParts(para_elem.children, 1)
    IN  IF parts = <<>> THEN <<>>
        ELSE <<PTag>> \o Join(parts, <<SP>>) \o <<"</p>">>

\* The parts the loop over the children of _render_list_item adds
ItemChildParts(children, k) ==
    IF k > Len(children) THEN <<>>
    ELSE LET child_html == render_element_to_html(children[k])
         IN  (IF child_html # <<>> THEN <<child_html>> ELSE <<>>)
             \o (IF children[k].tail # <<>> THEN <<Strip(children[k].tail)>> ELSE <<>>)
             \o ItemChildParts(children, k + 1)

\* _render_list_item
render_list_item(item_elem) ==
    LET parts == (IF item_elem.text # <<>> THEN <<Strip(item_elem.text)>> ELSE <<>>)
                 \o ItemChildParts(item_elem.children, 1)
    IN  Strip(Join(parts, <<SP>>))

\* The <li> elements of the items that render to something
ListItems(items, k) ==
    IF k > Len(items) THEN <<>>
    ELSE LET item_html == render_list_item(items[k])
         IN  (IF item_html # <<>> THEN <<LiTag>> \o item_html \o <<"</li>">> ELSE <<>>)
             \o ListItems(items, k + 1)

\* _render_list
render_list(list_elem) ==
    LET items == ChildrenTagged(list_elem, "item")
        list_items == ListItems(items, 1)
    IN  IF list_items = <<>> THEN <<>>
        ELSE IF list_elem.attr = "ordered"
        THEN <<OlTag>> \o list_items \o <<"</ol>">>
        ELSE <<UlTag>> \o list_items \o <<"</ul>">>

\* The parts the loop over the children of _render_styled_content adds
StyledChildParts(children, k) ==
    IF k > Len(children) THEN <<>>
    ELSE render_element_to_html(children[k]) \o children[k].tail
         \o StyledChildParts(children, k + 1)

\* _render_styled_content; the styleCode is one lower-case word
render_styled_content(content_elem) ==
    LET style_code == content_elem.attr
        text == Strip(content_elem.text \o StyledChildParts(content_elem.children, 1))
    IN  IF text = <<>> THEN <<>>
        ELSE IF style_code \in {"bold", "emphasis"} THEN <<StrongTag>> \o text \o <<"</strong>">>
        ELSE IF style_code = "italics" THEN <<EmTag>> \o text \o <<"</em>">>
        ELSE IF style_code = "underline" THEN <<UTag>> \o text \o <<"</u>">>
        ELSE text

\* _render_element_to_html
render_element_to_html(element) ==
    IF element.tag = "paragraph" THEN render_paragraph_elem(element)
    ELSE IF element.tag = "list" THEN render_list(element)
    ELSE IF element.tag = "table" THEN render_table(element)
    ELSE IF element.tag = "content" THEN render_styled_content(element)
    ELSE extract_text_from_element(element)

\* What the loop of _extract_section_content does with one child of <text>
render_block(child) ==
    IF child.tag = "component" \/ should_skip_element(child)
    THEN [skipped |-> TRUE, html |-> <<>>, text |-> <<>>]
    ELSE [skipped |-> FALSE,
          html |-> render_element_to_html(child),
          text |-> extract_text_from_element(child)]

\* '\n\n'.join(text_parts)
join_text_parts(text_parts) == Join(text_parts, <<LF, LF>>)

\* _extract_section_content over the children of the <text> element: the
\* rendering of each child and the two joined strings
extract_section_content_blocks(text_children) ==
    LET blocks == [k \in 1..Len(text_children) |-> render_block(text_children[k])]
        html_parts == SelectSeq([k \in 1..Len(blocks) |-> blocks[k].html], NonEmpty)
        text_parts == SelectSeq([k \in 1..Len(blocks) |-> blocks[k].text], NonEmpty)
    IN  [blocks |-> blocks,
         content_html |-> Join(html_parts, <<LF>>),
         content |-> join_text_parts(text_parts)]

\* Largest number of child elements of a <text> block.
RenderMaxBlocks == 2

\* Source texts: plain, padded, with inner whitespace, with a line break
\* and with the characters that are markup in HTML
RenderTexts ==
    { <<"a">>, <<SP>>, <<SP, "a", SP>>, <<"a", SP, SP, "b">>, <<"a", LF, "b">>,
      <<"a", "<", "b">>, <<"&">>, <<">">> }

Leaf(tag, text) == Elem(tag, "", text, <<>>, <<LF>>)

Styled(style_code, text, tail) == Elem("content", style_code, text, <<>>, tail)

Paragraphs ==
    { Leaf("paragraph", t) : t \in RenderTexts \cup {<<>>} }
    \cup { Elem("paragraph", "", <<"a", SP>>, <<Styled("bold", <<"b">>, <<SP, "c">>)>>, <<LF>>),
           Elem("paragraph", "", <<>>, <<Styled("italics", <<"a", "<", "b">>, <<>>)>>, <<LF>>),
           Elem("paragraph", "", <<LF>>, <<Styled("underline", <<"b">>, <<LF>>)>>, <<LF>>),
           Elem("paragraph", "", <<"a">>, <<Styled("none", <<SP, "b">>, <<>>)>>, <<LF>>),
           Elem("paragraph", "", <<"a">>, <<Elem("br", "", <<>>, <<>>, <<LF, "b">>)>>, <<LF>>) }

Item(text, children) == Elem("item", "", text, children, <<LF>>)

Lists ==
    { Elem("list", list_type, <<LF>>, items, <<LF>>) :
        list_type \in {"ordered", "unordered"},
        items \in { <<>>,
                    <<Item(<<"a">>, <<>>), Item(<<SP>>, <<>>)>>,
                    <<Item(<<"a", "<", "b">>, <<>>)>>,
                    <<Item(<<LF>>, <<Leaf("paragraph", <<"a">>)>>)>> } }

OtherBlocks ==
    { Styled("bold", <<"a">>, <<LF>>),
      Styled("none", <<"a", "&", "b">>, <<LF>>),
      Leaf("sub", <<"a">>),
      Leaf("br", <<>>),
      Leaf("renderMultiMedia", <<>>),
      Elem("component", "", <<LF>>, <<Leaf("section", <<"a">>)>>, <<LF>>) }

Cell(tag, text) == Elem(tag, "", text, <<>>, <<LF>>)

Row(cells) == Elem("tr", "", <<LF>>, cells, <<LF>>)

Thead(cells) == Elem("thead", "", <<LF>>, <<Row(cells)>>, <<LF>>)

Tbody(rows) == Elem("tbody", "", <<LF>>, rows, <<LF>>)

Captions == { <<>>, <<Cell("caption", <<"Table", SP, "1">>)>> }

Theads ==
    { <<>>,
      <<Thead(<<>>)>>,
      <<Thead(<<Cell("th", <<"A">>)>>)>>,
      <<Thead(<<Cell("th", <<"A">>), Cell("th", <<"B">>)>>)>>,
      <<Thead(<<Cell("th", <<SP>>)>>)>> }

Tbodies ==
    { <<>>,
      <<Tbody(<<>>)>>,
      <<Tbody(<<Row(<<Cell("td", <<"1">>)>>)>>)>>,
      <<Tbody(<<Row(<<Cell("td", <<"1">>), Cell("td", <<"2">>)>>),
                Row(<<Cell("td", <<SP>>), Cell("td", <<>>)>>),
                Row(<<Cell("td", <<>>), Cell("td", <<"3">>)>>)>>)>>,
      <<Tbody(<<Row(<<Cell("td", <<SP>>)>>)>>)>>,
      <<Tbody(<<Row(<<Cell("td", <<"a", "<", "b">>)>>)>>)>>,
      <<Tbody(<<Row(<<Cell("th", <<"A">>)>>)>>)>>,
      <<Tbody(<<>>), Tbody(<<Row(<<Cell("td", <<"1">>)>>)>>)>> }

\* A table: caption, thead and tbody elements, each optional
Tables ==
    { Elem("table", "", <<LF>>, caption \o thead \o tbodies, <<LF>>) :
        caption \in Captions, thead \in Theads, tbodies \in Tbodies }

PlainBlocks == Paragraphs \cup Lists \cup OtherBlocks

\* The children of a <text> element: up to RenderMaxBlocks blocks, at most
\* one of them a table
IsTextBlock(d) ==
    \E n \in 1..RenderMaxBlocks :
        \/ d \in [1..n -> PlainBlocks]
        \/ \E pos \in 1..n : \E table \in Tables : \E rest \in [1..(n - 1) -> PlainBlocks] :
              d = [k \in 1..n |-> IF k < pos THEN rest[k]
                                  ELSE IF k = pos THEN table ELSE rest[k - 1]]

RenderInit ==
    /\ IsTextBlock(doc)
    /\ pc = "start"
    /\ extracted = <<>>
    /\ merged = <<>>
    /\ sections = <<>>
    /\ again = <<>>
    /\ xml_content = ParsedBody
    /\ result = NoResult
    /\ EtlIdle
    /\ UltraIdle
    /\ MoreIdle

\* _extract_section_content is called on a section whose <text> element
\* has the children doc
ExtractSectionContent ==
    /\ pc = "start"
    /\ result' = extract_section_content_blocks(doc)
    /\ pc' = "returned"
    /\ UNCHANGED <<doc, extracted, merged, sections, again, xml_content, etlVars, ultraVars, moreVars>>

RenderNext == ExtractSectionContent

RenderSpec == RenderInit /\ [][RenderNext]_vars

\* _extract_section_content has returned
Rendered == pc = "returned"

IsWs(s, k) == s[k] \in {SP, LF}

\* C22: the plain-text content of a section holds no newline and no run of
\* two or more whitespace characters, whatever whitespace the source has
\* and however many content blocks the section has.
C22_ContentTextWhitespaceNormal ==
    Rendered =>
        LET content == result.content
        IN  /\ \A k \in 1..Len(content) : content[k] # LF
            /\ \A k \in 1..(Len(content) - 1) : ~(IsWs(content, k) /\ IsWs(content, k + 1))

\* The characters of source text that must be escaped in HTML, and their
\* escaped forms
MarkupChars == {"<", ">", "&"}

Escaped(c) ==
    CASE c = "<" -> "&lt;"
      [] c = ">" -> "&gt;"
      [] c = "&" -> "&amp;"
      [] OTHER -> c

\* The tokens of the texts and tails in the subtree of an element
RECURSIVE SourceTokens(_)
RECURSIVE SourceTokensFrom(_, _)
SourceTokensFrom(children, k) ==
    IF k > Len(children) THEN {}
    ELSE SourceTokens(children[k])
         \cup {children[k].tail[j] : j \in 1..Len(children[k].tail)}
         \cup SourceTokensFrom(children, k + 1)

SourceTokens(element) ==
    {element.text[j] : j \in 1..Len(element.text)} \cup SourceTokensFrom(element.children, 1)

\* C23: source text placed in content_html is escaped: no '<', '>' or '&'
\* of the source occurs raw in content_html, and where a rendered block's
\* source holds such a character its HTML carries the escaped form.
C23_SourceTextEscaped ==
    Rendered =>
        /\ \A k \in 1..Len(result.content_html) : result.content_html[k] \notin MarkupChars
        /\ \A b \in 1..Len(doc) :
              \A c \in MarkupChars :
                  ( /\ doc[b].tag \in {"paragraph", "content"}
                    /\ c \in SourceTokens(doc[b]) )
                  => \E k \in 1..Len(result.blocks[b].html) :
                         result.blocks[b].html[k] = Escaped(c)

\* A table has a header cell: a <th> inside a <thead>
HasHeaderCell(table_elem) ==
    LET theads == Descendants(table_elem, "thead")
    IN  \E h \in 1..Len(theads) : Descendants(theads[h], "th") # <<>>

\* A table has a non-empty body row: a <tr> inside a <tbody> with a <td>
\* whose text is not blank
HasNonEmptyBodyRow(table_elem) ==
    LET tbodies == Descendants(table_elem, "tbody")
    IN  \E b \in 1..Len(tbodies) :
            LET trs == Descendants(tbodies[b], "tr")
            IN  \E r \in 1..Len(trs) :
                    LET tds == Descendants(trs[r], "td")
                    IN  \E c \in 1..Len(tds) : SourceTokens(tds[c]) \ {SP, LF} # {}

Occurrences(s, token) == {k \in 1..Len(s) : s[k] = token}

\* C24: a table without header cell and without non-empty body row renders
\* to the empty string; a rendered table never lacks both the header row
\* and the body rows; and a table with a header cell or a non-empty body
\* row renders to exactly one <table>, its header row before its body rows.
C24_TableRendering ==
    Rendered =>
        \A b \in 1..Len(doc) :
            doc[b].tag = "table" =>
                LET html == result.blocks[b].html
                    tables == Occurrences(html, TableTag)
                    theads == Occurrences(html, TheadTag)
                    tbodies == Occurrences(html, "<tbody>")
                IN  /\ (~HasHeaderCell(doc[b]) /\ ~HasNonEmptyBodyRow(doc[b])) => html = <<>>
                    /\ html # <<>> => theads \cup tbodies # {}
                    /\ (HasHeaderCell(doc[b]) \/ HasNonEmptyBodyRow(doc[b])) =>
                          /\ Cardinality(tables) = 1
                          /\ Cardinality(theads) <= 1
                          /\ Cardinality(tbodies) <= 1
                          /\ \A h \in theads : \A r \in tbodies : h < r

(***************************************************************************)
(* SmartHybridParser._extract_structured_data: the dosages                 *)
(***************************************************************************)
\* f"{d[0]}{d[1]}": the first two characters of a unit of two or more
FirstTwoChars(u) ==
    CASE u = "mg" -> "mg"
      [] u = "mcg" -> "mc"
      [] u = "ml" -> "ml"
      [] u = "unit" -> "un"
      [] u = "units" -> "un"

\* _extract_structured_data: the dict it returns, or the exception that
\* leaves it; the key 'dosages' is set only when a unit was found
extract_structured_data(text) ==
    IF StructuredDataRaises(text) THEN Raised("IndexError")
    ELSE IF DosageUnits(text) = {} THEN [tag |-> "dict", keys |-> {}, dosages |-> {}]
    ELSE [tag |-> "dict", keys |-> {"dosages"},
          dosages |-> {FirstTwoChars(u) : u \in DosageUnits(text)}]

\* C25: _extract_structured_data returns a dict for the content text of
\* every section and never raises: without a dosage it has no 'dosages'
\* key, with a number followed by a unit it has a 'dosages' list, and no
\* section text makes parse_xml_content fail.
C25_StructuredDataNeverRaises ==
    (pc = "returned" /\ xml_content.wellformed /\ xml_content.hasBody) =>
        /\ result # Raised("IndexError")
        /\ \A k \in 1..Len(doc) :
              LET text == extract_plain_text(doc[k].paras)
                  data == extract_structured_data(text)
              IN  /\ data.tag = "dict"
                  /\ DosageUnits(text) = {} => data.keys = {}
                  /\ DosageUnits(text) # {} => "dosages" \in data.keys /\ data.dosages # {}

(***************************************************************************)
(* MedicalNER._deduplicate_entities (backend/etl/ner.py)                   *)
(*                                                                         *)
(* An entity is a record of its start_char, end_char and confidence; a     *)
(* confidence is a small integer.                                          *)
(***************************************************************************)
\* Largest number of entities in the list given to _deduplicate_entities.
MaxEntities == 3

\* Character positions of a text
MaxPos == 3

\* Confidence scores
Confidences == {1, 2, 3}

\* The entities extract_entities collects: up to MaxEntities spans of the
\* text, each with a score
IsEntityList(l) ==
    \E n \in 0..MaxEntities : \E starts \in [1..n -> 0..(MaxPos - 1)] :
        \E lens \in [1..n -> 1..MaxPos] : \E confs \in [1..n -> Confidences] :
            /\ \A k \in 1..n : starts[k] + lens[k] <= MaxPos
            /\ l = [k \in 1..n |-> [start_char |-> starts[k],
                                     end_char |-> starts[k] + lens[k],
                                     confidence |-> confs[k]]]

\* Insertion of e after the last element whose key is not larger
RECURSIVE InsertSorted(_, _)
InsertSorted(l, e) ==
    IF l = <<>> THEN <<e>>
    ELSE IF l[Len(l)].start_char <= e.start_char THEN Append(l, e)
    ELSE Append(InsertSorted(SubSeq(l, 1, Len(l) - 1), e), l[Len(l)])

\* sorted(entities, key=lambda e: e['start_char']): a stable sort
RECURSIVE SortedByStart(_)
SortedByStart(l) ==
    IF l = <<>> THEN <<>>
    ELSE InsertSorted(SortedByStart(SubSeq(l, 1, Len(l) - 1)), l[Len(l)])

OverlapsSameStart(entity, existing) == entity.start_char = existing.start_char

\* entity['start_char'] < existing['end_char'] and
\* entity['end_char'] > existing['start_char']
Overlaps(entity, existing) ==
    entity.start_char < existing.end_char /\ entity.end_char > existing.start_char

\* list.remove(x): the list without its first element equal to x
RECURSIVE ListRemove(_, _)
ListRemove(l, x) ==
    IF l = <<>> THEN <<>>
    ELSE IF Head(l) = x THEN Tail(l)
    ELSE <<Head(l)>> \o ListRemove(Tail(l), x)

\* for existing in deduplicated: the iterator is at index i of the list as
\* it is now, so that the element after a removed one is passed over
RECURSIVE ScanExisting(_, _, _)
ScanExisting(entity, kept, i) ==
    IF i > Len(kept) THEN [deduplicated |-> kept, overlap |-> FALSE]
    ELSE LET existing == kept[i]
         IN  IF Overlaps(entity, existing)
             THEN IF entity.confidence > existing.confidence
                  THEN ScanExisting(entity, ListRemove(kept, existing), i + 1)
                  ELSE [deduplicated |-> kept, overlap |-> TRUE]
             ELSE ScanExisting(entity, kept, i + 1)

\* The loop over the sorted entities, from the k-th on
RECURSIVE DeduplicateFrom(_, _, _)
DeduplicateFrom(sorted, k, kept) ==
    IF k > Len(sorted) THEN kept
    ELSE LET scan == ScanExisting(sorted[k], kept, 1)
         IN  DeduplicateFrom(sorted, k + 1,
                             IF scan.overlap THEN scan.deduplicated
                             ELSE Append(scan.deduplicated, sorted[k]))

\* _deduplicate_entities
deduplicate_entities(l) ==
    IF l = <<>> THEN <<>> ELSE DeduplicateFrom(SortedByStart(l), 1, <<>>)

notNer == <<doc, extracted, merged, sections, again, xml_content, result, etlVars, ultraVars,
           saveVars, watchVars>>

NerInit ==
    /\ IsEntityList(entities)
    /\ deduplicated = <<>>
    /\ doc = <<>>
    /\ pc = "start"
    /\ extracted = <<>>
    /\ merged = <<>>
    /\ sections = <<>>
    /\ again = <<>>
    /\ xml_content = ParsedBody
    /\ result = NoResult
    /\ EtlIdle
    /\ UltraIdle
    /\ SaveIdle
    /\ WatchIdle

\* extract_entities calls _deduplicate_entities on the entities it collected
DeduplicateEntities ==
    /\ pc = "start"
    /\ deduplicated' = deduplicate_entities(entities)
    /\ pc' = "returned"
    /\ UNCHANGED entities
    /\ UNCHANGED notNer

NerNext == DeduplicateEntities

NerSpec == NerInit /\ [][NerNext]_vars

\* C26: no two entities of the result overlap: of any two kept entities
\* one ends at or before the start of the other.
C26_ResultHasNoOverlap ==
    pc = "returned" =>
        \A i, j \in 1..Len(deduplicated) :
            i # j =>
                \/ deduplicated[i].end_char <= deduplicated[j].start_char
                \/ deduplicated[j].end_char <= deduplicated[i].start_char

\* An entity that overlaps two others was given, entities were dropped and
\* more than one was kept
C26_Witness ==
    /\ pc = "returned"
    /\ Len(deduplicated) >= 2
    /\ Len(deduplicated) < Len(entities)
    /\ \E i, j, k \in 1..Len(entities) :
          /\ i # j /\ i # k /\ j # k
          /\ Overlaps(entities[i], entities[j])
          /\ Overlaps(entities[i], entities[k])
          /\ ~Overlaps(entities[j], entities[k])

\* The entities of a list, as a set
EntitySet(l) == {l[k] : k \in 1..Len(l)}

\* C27: the higher-confidence entity of every overlap is kept: each input
\* entity that is missing from the result overlaps an entity of the result
\* whose confidence is greater than or equal to its own.
C27_DroppedOnlyForKeptBetter ==
    pc = "returned" =>
        \A i \in 1..Len(entities) :
            entities[i] \notin EntitySet(deduplicated) =>
                \E k \in 1..Len(deduplicated) :
                    /\ Overlaps(entities[i], deduplicated[k])
                    /\ deduplicated[k].confidence >= entities[i].confidence

(***************************************************************************)
(* ETLBuilder._save_to_database (backend/etl/etl_builder.py) called by     *)
(* processes that share the database                                       *)
(*                                                                         *)
(* db holds the committed rows of drug_labels, drug_sections and           *)
(* section_embeddings; a session holds the rows it has added and flushed   *)
(* but not committed, which no other session sees.  A step of a call is    *)
(* one awaited database operation.                                         *)
(***************************************************************************)
\* Largest number of files in the batch of the first process.
MaxSaves == 2

\* The processes that run process_fda_label on the same database: the
\* first works through a batch, the second processes a single file
Procs == {1, 2}

SavesOf(p) == IF p = 1 THEN MaxSaves ELSE 1

\* The label files: metadata set_id and version, and the number of sections
LabelFiles ==
    { [name |-> "a_v1.zip", set_id |-> "A", version |-> 1, sections |-> 1],
      [name |-> "a_v1_copy.zip", set_id |-> "A", version |-> 1, sections |-> 2],
      [name |-> "a_v2.zip", set_id |-> "A", version |-> 2, sections |-> 1] }

NoFile == [name |-> "none", set_id |-> "none", version |-> 0, sections |-> 0]

\* The rows a session has added: nothing after AsyncSessionLocal()
NoPending == [drug_labels |-> <<>>, drug_sections |-> <<>>, section_embeddings |-> <<>>]

\* A call that has returned: its file, the value returned, whether the
\* duplicate check found a row, the id its label drew, and the step that
\* raised
NoCall == [file |-> NoFile, value |-> NoId, found |-> FALSE, label_id |-> NoId,
           failed |-> "none"]

IdleSession(budget) ==
    [pc |-> "idle", file |-> NoFile, pending |-> NoPending, last |-> NoCall,
     budget |-> budget]

\* select(DrugLabel).where(set_id == set_id, version == version): the
\* committed rows
ExistingLabels(database, file) ==
    SelectSeq(database.drug_labels,
              LAMBDA row : row.set_id = file.set_id /\ row.version = file.version)

\* Another session has inserted a row of the same (set_id, version) and has
\* not yet committed or rolled back: with the unique constraint the insert
\* waits for it
InsertBlocked(p, file) ==
    \E q \in Procs \ {p} :
        \E k \in 1..Len(sessions[q].pending.drug_labels) :
            /\ sessions[q].pending.drug_labels[k].set_id = file.set_id
            /\ sessions[q].pending.drug_labels[k].version = file.version

\* The rows of a session written into the tables
WithRows(database, pending) ==
    [database EXCEPT !.drug_labels = @ \o pending.drug_labels,
                     !.drug_sections = @ \o pending.drug_sections,
                     !.section_embeddings = @ \o pending.section_embeddings]

FlushAutocommit(database, added) == WithRows(database, added)

\* session.flush(): the added rows are sent inside the transaction of the
\* session; the committed tables do not change
Flush(database, added) == database

\* session.commit(): the rows of the session become visible together
CommitRows(database, pending) == WithRows(database, pending)

\* The DrugLabel row of a file
LabelRow(id, file) ==
    [id |-> id, set_id |-> file.set_id, version |-> file.version, source_file |-> file.name]

\* The DrugSection rows of a label, one per section of the file
SectionRows(label, file) ==
    [i \in 1..file.sections |-> [drug_label_id |-> label.id, order |-> i]]

\* The SectionEmbedding rows, one per DrugSection row, chunk_index from 0
EmbeddingRows(drug_sections) ==
    [i \in 1..Len(drug_sections) |->
        [drug_label_id |-> drug_sections[i].drug_label_id,
         section_order |-> drug_sections[i].order,
         chunk_index |-> i - 1]]

notSave == <<doc, pc, extracted, merged, sections, again, xml_content, result, etlVars,
            ultraVars, nerVars, watchVars>>

\* Processes that have not called process_fda_label; the database is empty
\* and has the unique constraint of migrate_unique_constraint.py or not
SaveInit ==
    /\ db = EmptyDb
    /\ sessions = [p \in Procs |-> IdleSession(SavesOf(p))]
    /\ unique_constraint \in BOOLEAN
    /\ doc = <<>>
    /\ pc = "start"
    /\ extracted = <<>>
    /\ merged = <<>>
    /\ sections = <<>>
    /\ again = <<>>
    /\ xml_content = ParsedBody
    /\ result = NoResult
    /\ EtlIdle
    /\ UltraIdle
    /\ NerIdle
    /\ WatchIdle

\* The call of process p returns value; the session is closed
Return(p, value, found, failed) ==
    [sessions EXCEPT
        ![p].pc = "idle",
        ![p].pending = NoPending,
        ![p].last = [file |-> sessions[p].file,
                     value |-> value,
                     found |-> found,
                     label_id |-> IF sessions[p].pending.drug_labels # <<>>
                                  THEN sessions[p].pending.drug_labels[1].id ELSE NoId,
                     failed |-> failed]]

\* except Exception: await session.rollback(); return None
RollbackAndReturnNone(p, failed) == Return(p, NoId, FALSE, failed)

\* process_fda_label has parsed a file and calls _save_to_database
BeginSave(p) ==
    /\ sessions[p].pc = "idle"
    /\ sessions[p].budget > 0
    /\ \E file \in LabelFiles :
          sessions' = [sessions EXCEPT ![p].pc = "check", ![p].file = file,
                                       ![p].pending = NoPending, ![p].budget = @ - 1]
    /\ UNCHANGED <<db, unique_constraint>>
    /\ UNCHANGED notSave

\* The duplicate check: scalar_one_or_none() gives the row, None, or
\* raises MultipleResultsFound
DuplicateCheck(p) ==
    /\ sessions[p].pc = "check"
    /\ LET existing == ExistingLabels(db, sessions[p].file)
       IN  sessions' = IF Len(existing) = 0 THEN [sessions EXCEPT ![p].pc = "label"]
                       ELSE IF Len(existing) = 1 THEN Return(p, existing[1].id, TRUE, "none")
                       ELSE Return(p, NoId, TRUE, "check")
    /\ UNCHANGED <<db, unique_constraint>>
    /\ UNCHANGED notSave

\* session.add(drug_label); await session.flush(): the label gets its id
AddLabel(p) ==
    /\ sessions[p].pc = "label"
    /\ LET file == sessions[p].file
           row == LabelRow(db.next_id, file)
           added == [NoPending EXCEPT !.drug_labels = <<row>>]
           violates == unique_constraint /\ ExistingLabels(db, file) # <<>>
       IN  \/ /\ ~violates
              /\ ~(unique_constraint /\ InsertBlocked(p, file))
              /\ sessions' = [sessions EXCEPT ![p].pc = "sections", ![p].pending = added]
              /\ db' = [Flush(db, added) EXCEPT !.next_id = @ + 1]
           \/ /\ sessions' = RollbackAndReturnNone(p, "label")
              /\ UNCHANGED db
    /\ UNCHANGED unique_constraint
    /\ UNCHANGED notSave

\* session.add(drug_section) for every section; await session.flush()
AddSections(p) ==
    /\ sessions[p].pc = "sections"
    /\ LET rows == SectionRows(sessions[p].pending.drug_labels[1], sessions[p].file)
           added == [NoPending EXCEPT !.drug_sections = rows]
       IN  \/ /\ sessions' = [sessions EXCEPT ![p].pc = "embeddings",
                                              ![p].pending.drug_sections = rows]
              /\ db' = Flush(db, added)
           \/ /\ sessions' = RollbackAndReturnNone(p, "sections")
              /\ UNCHANGED db
    /\ UNCHANGED unique_constraint
    /\ UNCHANGED notSave

\* session.add(section_embedding) for every DrugSection
AddEmbeddings(p) ==
    /\ sessions[p].pc = "embeddings"
    /\ \/ sessions' = [sessions EXCEPT
                          ![p].pc = "commit",
                          ![p].pending.section_embeddings =
                              EmbeddingRows(sessions[p].pending.drug_sections)]
       \/ sessions' = RollbackAndReturnNone(p, "embeddings")
    /\ UNCHANGED <<db, unique_constraint>>
    /\ UNCHANGED notSave

\* await session.commit(); return drug_label.id
Commit(p) ==
    /\ sessions[p].pc = "commit"
    /\ \/ /\ db' = CommitRows(db, sessions[p].pending)
          /\ sessions' = Return(p, sessions[p].pending.drug_labels[1].id, FALSE, "none")
       \/ /\ sessions' = RollbackAndReturnNone(p, "commit")
          /\ UNCHANGED db
    /\ UNCHANGED unique_constraint
    /\ UNCHANGED notSave

SaveNext ==
    \E p \in Procs :
        \/ BeginSave(p)
        \/ DuplicateCheck(p)
        \/ AddLabel(p)
        \/ AddSections(p)
        \/ AddEmbeddings(p)
        \/ Commit(p)

SaveSpec == SaveInit /\ [][SaveNext]_vars

\* The committed rows that belong to the label with an id
RowsOfLabel(id) ==
    [drug_labels |-> SelectSeq(db.drug_labels, LAMBDA row : row.id = id),
     drug_sections |-> SelectSeq(db.drug_sections, LAMBDA row : row.drug_label_id = id),
     section_embeddings |->
         SelectSeq(db.section_embeddings, LAMBDA row : row.drug_label_id = id)]

\* C28: drug_labels holds at most one row for a (set_id, version), whatever
\* the sequence or interleaving of the calls, and a call whose duplicate
\* check found the row inserted nothing and returned the id of that row.
C28_NoDuplicateLabels ==
    /\ \A file \in LabelFiles : Len(ExistingLabels(db, file)) <= 1
    /\ \A p \in Procs :
          LET call == sessions[p].last
          IN  call.found =>
                  /\ call.label_id = NoId
                  /\ \E k \in 1..Len(db.drug_labels) :
                         /\ db.drug_labels[k].id = call.value
                         /\ db.drug_labels[k].set_id = call.file.set_id
                         /\ db.drug_labels[k].version = call.file.version

\* The file a committed label row was read from
FileNamed(name) == CHOOSE file \in LabelFiles : file.name = name

\* C29: _save_to_database is all-or-nothing: a call in which the label, a
\* section or an embedding failed returns None and leaves no row of its
\* label in any table; a call that returns an id it created has committed
\* its label; and at every moment each committed label has all its section
\* and embedding rows, and no section or embedding row lacks its label.
C29_AllOrNothing ==
    /\ \A p \in Procs :
          LET call == sessions[p].last
              rows == RowsOfLabel(call.label_id)
          IN  /\ call.failed # "none" =>
                    /\ call.value = NoId
                    /\ call.label_id # NoId => rows = NoPending
              /\ (call.failed = "none" /\ call.label_id # NoId) =>
                    /\ call.value = call.label_id
                    /\ Len(rows.drug_labels) = 1
    /\ \A k \in 1..Len(db.drug_labels) :
          LET rows == RowsOfLabel(db.drug_labels[k].id)
              file == FileNamed(db.drug_labels[k].source_file)
          IN  /\ Len(rows.drug_sections) = file.sections
              /\ Len(rows.section_embeddings) = file.sections
    /\ \A k \in 1..Len(db.drug_sections) :
          RowsOfLabel(db.drug_sections[k].drug_label_id).drug_labels # <<>>
    /\ \A k \in 1..Len(db.section_embeddings) :
          RowsOfLabel(db.section_embeddings[k].drug_label_id).drug_labels # <<>>

\* One call failed while adding its embeddings, after its label and its
\* sections were flushed, and another call has committed a label with two
\* sections
C29_Witness ==
    /\ sessions[1].last.failed = "embeddings"
    /\ sessions[1].last.label_id # NoId
    /\ sessions[2].last.failed = "none"
    /\ sessions[2].last.label_id # NoId
    /\ Len(RowsOfLabel(sessions[2].last.label_id).drug_sections) = 2
    /\ Len(RowsOfLabel(sessions[2].last.label_id).section_embeddings) = 2

(***************************************************************************)
(* run_watchdog_pipeline (backend/scripts/run_watchdog.py)                 *)
(*                                                                         *)
(* label_versions is the column version of drug_labels by drug id,         *)
(* drug_version_history the table of that name, s3_objects the keys of the *)
(* bucket.  A step of the run is one awaited call of a service.            *)
(***************************************************************************)
\* Largest number of drugs with version_check_enabled.
MaxDrugs == 3

\* The version stored for every drug before the run, and the version
\* DailyMed reports when it has a new one
StoredVersion == 1

LatestVersion == 2

\* The value None of a zip_path or an s3_key
NoPath == [drug_id |-> 0, version |-> 0]

\* The statuses check_version returns
Statuses == {"new_version", "up_to_date", "error"}

\* results = {'new_versions': [], 'up_to_date': [], 'errors': []}
NoResults == [new_versions |-> <<>>, up_to_date |-> <<>>, errors |-> <<>>]

\* The dict check_version returns for a drug; only an error dict has the key
\* 'error', written here as the empty string where the key is absent
CheckResult(drug, status) ==
    [status |-> status, drug_id |-> drug.drug_id,
     current_version |-> drug.current_version,
     new_version |-> IF status = "new_version" THEN LatestVersion ELSE drug.current_version,
     error |-> IF status = "error" THEN "check failed" ELSE ""]

\* labels/active/{set_id}/v{version}/...zip
S3Key(res) == [drug_id |-> res.drug_id, version |-> res.new_version]

\* {**result, 'error': ...}
ErrorOf(res, error) == [res EXCEPT !.error = error]

AfterUploadAlwaysSave(s3_key) == "save"

\* if s3_key: save_version_update(...) else: results['errors'].append(...)
AfterUpload(s3_key) == IF s3_key # NoPath THEN "save" ELSE "failed"

\* The row save_version_update inserts into drug_version_history
HistoryRow(res, s3_key) ==
    [drug_id |-> res.drug_id, old_version |-> res.current_version,
     new_version |-> res.new_version, s3_key |-> s3_key]

notWatch == <<doc, pc, extracted, merged, sections, again, xml_content, result, etlVars,
             ultraVars, nerVars, saveVars>>

\* The pipeline is started; drug_labels holds up to MaxDrugs enabled drugs
WatchInit ==
    /\ \E n \in 0..MaxDrugs : label_versions = [d \in 1..n |-> StoredVersion]
    /\ drug_version_history = <<>>
    /\ s3_objects = {}
    /\ watch = [pc |-> "start", drugs_to_check |-> <<>>, checked |-> 0, results |-> NoResults,
                idx |-> 1, zip_path |-> NoPath, s3_key |-> NoPath, downloads |-> {}]
    /\ doc = <<>>
    /\ pc = "start"
    /\ extracted = <<>>
    /\ merged = <<>>
    /\ sections = <<>>
    /\ again = <<>>
    /\ xml_content = ParsedBody
    /\ result = NoResult
    /\ EtlIdle
    /\ UltraIdle
    /\ NerIdle
    /\ SaveIdle

\* Step 1: get_enabled_drugs; without drugs the run returns
FetchDrugs ==
    /\ watch.pc = "start"
    /\ LET drugs == [d \in 1..Len(label_versions) |->
                        [drug_id |-> d, current_version |-> label_versions[d]]]
       IN  watch' = [watch EXCEPT !.drugs_to_check = drugs,
                                  !.pc = IF drugs = <<>> THEN "done" ELSE "check"]
    /\ UNCHANGED <<label_versions, drug_version_history, s3_objects>>
    /\ UNCHANGED notWatch

\* Step 2: check_version for the next drug; after the last drug the run
\* goes on to step 3
CheckVersion ==
    /\ watch.pc = "check"
    /\ \E status \in Statuses :
          LET drug == watch.drugs_to_check[watch.checked + 1]
              res == CheckResult(drug, status)
              key == IF status = "new_version" THEN "new_versions"
                     ELSE IF status = "up_to_date" THEN "up_to_date" ELSE "errors"
          IN  watch' = [watch EXCEPT
                           !.results[key] = Append(@, res),
                           !.checked = @ + 1,
                           !.pc = IF watch.checked + 1 = Len(watch.drugs_to_check)
                                  THEN "process" ELSE "check"]
    /\ UNCHANGED <<label_versions, drug_version_history, s3_objects>>
    /\ UNCHANGED notWatch

\* The new version the loop of step 3 is at
Current == watch.results.new_versions[watch.idx]

\* Step 3: download_label_zip returns a path or None
DownloadLabelZip ==
    /\ watch.pc = "process"
    /\ watch.idx <= Len(watch.results.new_versions)
    /\ \/ watch' = [watch EXCEPT !.zip_path = S3Key(Current),
                                 !.downloads = @ \cup {S3Key(Current)},
                                 !.pc = "upload"]
       \/ watch' = [watch EXCEPT !.zip_path = NoPath,
                                 !.results.errors = Append(@, ErrorOf(Current, "Download failed")),
                                 !.idx = @ + 1]
    /\ UNCHANGED <<label_versions, drug_version_history, s3_objects>>
    /\ UNCHANGED notWatch

\* Step 3: upload_label returns the key or None
UploadLabel ==
    /\ watch.pc = "upload"
    /\ \E s3_key \in {S3Key(Current), NoPath} :
          /\ s3_objects' = IF s3_key # NoPath THEN s3_objects \cup {s3_key} ELSE s3_objects
          /\ watch' = IF AfterUpload(s3_key) = "save"
                      THEN [watch EXCEPT !.s3_key = s3_key, !.pc = "save"]
                      ELSE [watch EXCEPT
                               !.s3_key = s3_key,
                               !.results.errors = Append(@, ErrorOf(Current, "S3 upload failed")),
                               !.idx = @ + 1,
                               !.pc = "process"]
    /\ UNCHANGED <<label_versions, drug_version_history>>
    /\ UNCHANGED notWatch

\* Step 3: save_version_update commits the UPDATE and the INSERT together,
\* or rolls back and raises, which ends the run in the outer except clause
SaveVersionUpdate ==
    /\ watch.pc = "save"
    /\ \/ /\ label_versions' = [label_versions EXCEPT ![Current.drug_id] = Current.new_version]
          /\ drug_version_history' = Append(drug_version_history, HistoryRow(Current, watch.s3_key))
          /\ watch' = [watch EXCEPT !.idx = @ + 1, !.pc = "process"]
       \/ /\ watch' = [watch EXCEPT !.pc = "fatal"]
          /\ UNCHANGED <<label_versions, drug_version_history>>
    /\ UNCHANGED s3_objects
    /\ UNCHANGED notWatch

\* Step 4: the notifications and the summary
SendSummary ==
    /\ watch.pc = "process"
    /\ watch.idx > Len(watch.results.new_versions)
    /\ watch' = [watch EXCEPT !.pc = "done"]
    /\ UNCHANGED <<label_versions, drug_version_history, s3_objects>>
    /\ UNCHANGED notWatch

WatchNext ==
    \/ FetchDrugs
    \/ CheckVersion
    \/ DownloadLabelZip
    \/ UploadLabel
    \/ SaveVersionUpdate
    \/ SendSummary

WatchSpec == WatchInit /\ [][WatchNext]_vars

\* The history rows written for a drug, and the errors step 3 recorded for it
HistoryOf(d) == {i \in 1..Len(drug_version_history) : drug_version_history[i].drug_id = d}

StepErrors == {"Download failed", "S3 upload failed"}

FailedAt(k) ==
    \E i \in 1..Len(watch.results.errors) :
        /\ watch.results.errors[i].drug_id = watch.results.new_versions[k].drug_id
        /\ watch.results.errors[i].error \in StepErrors

\* C30: in run_watchdog_pipeline a drug's stored version is changed and a
\* drug_version_history row is written only for a drug whose ZIP was
\* downloaded and uploaded to S3 in this run, both together; a drug whose
\* download or upload failed keeps its stored version, has no history row
\* and is in errors; and a run that reaches its summary has taken every new
\* version either to a saved update or to errors.
C30_SaveOnlyAfterUpload ==
    watch.pc # "start" =>
        /\ \A i \in 1..Len(drug_version_history) :
              LET row == drug_version_history[i]
                  key == [drug_id |-> row.drug_id, version |-> row.new_version]
              IN  /\ key \in watch.downloads
                  /\ key \in s3_objects
                  /\ row.s3_key = key
                  /\ label_versions[row.drug_id] = row.new_version
        /\ \A k \in 1..Len(watch.drugs_to_check) :
              LET drug == watch.drugs_to_check[k]
              IN  label_versions[drug.drug_id] # drug.current_version
                      => HistoryOf(drug.drug_id) # {}
        /\ \A k \in 1..Len(watch.results.new_versions) :
              LET res == watch.results.new_versions[k]
              IN  /\ FailedAt(k) => /\ label_versions[res.drug_id] = res.current_version
                                    /\ HistoryOf(res.drug_id) = {}
                  /\ k < watch.idx => (FailedAt(k) \/ HistoryOf(res.drug_id) # {})
                  /\ (k > watch.idx \/ (k = watch.idx /\ watch.pc = "process"))
                         => (~FailedAt(k) /\ HistoryOf(res.drug_id) = {})
        /\ watch.pc = "done" => watch.idx = Len(watch.results.new_versions) + 1

\* A finished run in which one new version failed at the upload and a later
\* one was saved
C30_Witness ==
    /\ watch.pc = "done"
    /\ \E k \in 1..Len(watch.results.new_versions) :
          /\ FailedAt(k)
          /\ \E i \in 1..Len(watch.results.errors) :
                watch.results.errors[i].error = "S3 upload failed"
          /\ \E j \in (k + 1)..Len(watch.results.new_versions) :
                HistoryOf(watch.results.new_versions[j].drug_id) # {}

====
